---------------------------- MODULE Spec2Model ----------------------------
(***************************************************************************)
(* A model of the zkvote protocol layer: the field codec and Poseidon      *)
(* wrappers (utils/poseidon.js), the Merkle engine (utils/merkle-helper.js)*)
(* the EIP-712 vote signing (utils/eip712.js), the Vote circuit            *)
(* (circuits/vote.circom) and the nullifier registry the tests keep        *)
(* (tests/test-double-voting.js).                                          *)
(*                                                                         *)
(* Numbers are scaled: the 160-bit address space, the BN254 field order P, *)
(* the secp256k1 order N and the 256-bit hash space keep their order       *)
(* 16^ADDRESS_HEX_DIGITS <= P - 1 < P < N < 2^256, with small values.      *)
(*                                                                         *)
(* A decimal string holding a number n is the tuple <<n>>; the decimal     *)
(* string that poseidon.F.toString returns is the term <<"H", in_1, ...>>  *)
(* over its field-reduced inputs, so that the hash is collision-free on    *)
(* field elements and two strings are equal exactly when the tuples are.   *)
(***************************************************************************)
EXTENDS Integers, Sequences, FiniteSets, TLC

(* ------------------------------ bounds -------------------------------- *)

\* TREE_DEPTH is 7 in utils/constants.js; the model builds trees of this depth.
TREE_DEPTH == 2

\* Number of vote attempts that may be in flight at once.
NumAttempts == 2

\* Longest address list handed to buildMerkleTree.
MaxAddresses == 5

\* Callers of getPoseidon in one process.
NumCallers == 3

(* ------------------------ scaled program constants --------------------- *)

\* Hex digits after "0x" in an address: {40} in the source's pattern.
ADDRESS_HEX_DIGITS == 2

\* The BN254 scalar field order P, scaled: above every address value.
BN254_FIELD_ORDER == 257

\* The secp256k1 group order N, scaled: N > P as in the source.
SECP256K1_N == 263

\* MAX_TOPIC_ID_LENGTH of utils/constants.js (256), scaled.
MAX_TOPIC_ID_LENGTH == 3

\* MERKLE_PADDING_VALUE is the decimal string of P - 1.
MERKLE_PADDING_ZERO == <<0>>

MERKLE_PADDING_VALUE == <<BN254_FIELD_ORDER - 1>>

(* --------------------------------- state ------------------------------- *)

\* The Merkle runs.
VARIABLES
    voterList,   \* the address list last given to buildMerkleTree
    treeData,    \* what buildMerkleTree returned for it (Ok(tree) or Err)
    mop,         \* the Merkle operation that ran last
    vindex,      \* the leaf index of the last proof (-1: proof not from the tree)
    vleaf,       \* the arguments of the last verifyMerkleProof call ...
    vproof,
    vroot,
    vresult,     \* ... and what it returned
    vtamper,     \* how the last valid proof was corrupted before verifying
    vprove       \* the last getMerkleProof call on its own: index asked, answer

merkleVars ==
    <<voterList, treeData, mop, vindex, vleaf, vproof, vroot, vresult, vtamper, vprove>>

\* The vote attempts and the nullifier registry.
VARIABLES
    registry,     \* nullifierRegistry: the Set of registered nullifiers
    pc,           \* where each vote attempt stands
    att,          \* its wallet (voter index), topic id and vote message
    input,        \* the circuit input buildCircuitInput returned
    nul,          \* publicSignals[PUBLIC_SIGNAL.NULLIFIER] of its proof
    outcome,      \* what the registry answered: "Accepted" or "DoubleVote"
    fresh,        \* history: its nullifier was unregistered when its proof arrived
    submitted,    \* history: nullifiers presented to the registry so far
    lastCall,     \* history: the last registry call and the registry before it
    derived,      \* history: nullifiers presented per (wallet, topic)
    acceptedCount, \* history: votes accepted per (wallet, topic)
    acceptedBy    \* history: per registered nullifier, the attempt slot accepted with it

voteVars == <<registry, pc, att, input, nul, outcome, fresh, submitted, lastCall,
              derived, acceptedCount, acceptedBy>>

\* computeNullifier calls.
VARIABLES
    ncall,        \* the last computeNullifier call: arguments, list hashed, result
    nprev         \* the last call before it that returned a nullifier

nullVars == <<ncall, nprev>>

\* generateProof runs.
VARIABLES
    gpc,          \* where the generateProof run stands
    gargs,        \* its arguments
    gsig,         \* what signVoteMessage resolved with
    ginput,       \* the proof input record it assembled, <<>> when none
    gerror,       \* the message of the error it rejected with
    inputFile,    \* build/proof_input.json, <<>> when absent
    gtoJSON,      \* the host of the run defines BigInt.prototype.toJSON
    gsignCalls,   \* calls of signVoteMessage in the run
    gproveCalls,  \* calls of snarkjs.groth16.fullProve in the run
    gprover,      \* the proving promise: "idle", "pending", "resolved", "rejected"
    gtimer,       \* the timeout timer: "unset", "pending", "fired"
    gproof,       \* what the prover resolved with, <<>> when nothing
    gresult,      \* the proof data generateProof returned, <<>> when none
    proofFile,    \* build/latest_proof.json, <<>> when absent
    proofFileBefore  \* history: the proof file when the run started

genVars == <<gpc, gargs, gsig, ginput, gerror, inputFile, gtoJSON, gsignCalls,
             gproveCalls, gprover, gtimer, gproof, gresult, proofFile, proofFileBefore>>

\* Calls of the field codec on its own.
VARIABLES
    cfn,          \* the function called last, "none" between calls
    cin,          \* its argument
    cout,         \* what it returned (Ok) or threw (Err)
    csigned       \* what it handed to wallet.signTypedData, <<>> when nothing

codecVars == <<cfn, cin, cout, csigned>>

\* The module state of utils/poseidon.js and the callers of getPoseidon.
VARIABLES
    poseidonPromise,  \* 0 for null, or the number of the buildPoseidon call it came from
    builds,           \* the buildPoseidon calls so far, each "pending", "resolved" or "rejected"
    gpstate,          \* per caller: "idle", "awaiting", "returned", "threw"
    gpawait,          \* per caller: the buildPoseidon call whose promise it awaits, 0 for none
    gparrived,        \* history, per caller: what it found when it called
    gpreset           \* history: resetPoseidonInstance was called

poseidonVars == <<poseidonPromise, builds, gpstate, gpawait, gparrived, gpreset>>

vars == <<merkleVars, voteVars, nullVars, genVars, codecVars, poseidonVars>>

(* --------------------------- Poseidon wrappers ------------------------- *)

\* ffjavascript's F.e(x), applied by circomlibjs's poseidon to every input:
\* a number (or numeric string) is reduced modulo P; an earlier hash output
\* is a field element already.
FieldE(x) ==
    IF Len(x) = 1 THEN <<x[1] % BN254_FIELD_ORDER>> ELSE x

\* poseidonHash2(left, right): F.toString(poseidon([left, right])).
poseidonHash2LeftOnly(left, right) ==
    <<"H", FieldE(left), FieldE(left)>>

poseidonHash2(left, right) ==
    <<"H", FieldE(left), FieldE(right)>>

\* poseidonHashMany(inputs): F.toString(poseidon(inputs)), inputs BigInts.
poseidonHashMany(inputs) ==
    <<"H">> \o [i \in 1..Len(inputs) |-> inputs[i] % BN254_FIELD_ORDER]

(* ------------------------------ field codec --------------------------- *)

\* A thrown Error, and a returned value.
Err(msg) == [ok |-> FALSE, value |-> <<>>, error |-> msg]
Ok(v) == [ok |-> TRUE, value |-> v, error |-> ""]

\* validateFieldElement(value, name): value is a number or a numeric string
\* <<n>>; BigInt(value) is n. Returns the BigInt n.
validateFieldElementNoUpper(value) ==
    IF value[1] < 0 THEN Err("must be non-negative")
    ELSE Ok(value[1])

validateFieldElement(value) ==
    IF value[1] < 0 THEN Err("must be non-negative")
    ELSE IF value[1] >= BN254_FIELD_ORDER THEN Err("exceeds BN254 field order")
    ELSE Ok(value[1])

\* validateEcdsaScalar(value, name).
validateEcdsaScalarFieldBound(value) ==
    IF value[1] <= 0 THEN Err("must be positive")
    ELSE IF value[1] >= BN254_FIELD_ORDER THEN Err("must be less than secp256k1 curve order")
    ELSE Ok(value[1])

validateEcdsaScalar(value) ==
    IF value[1] <= 0 THEN Err("must be positive")
    ELSE IF value[1] >= SECP256K1_N THEN Err("must be less than secp256k1 curve order")
    ELSE Ok(value[1])

\* validateSignatureV(v): Number(v) is 27 or 28.
validateSignatureVUpTo29(v) ==
    IF v[1] < 27 \/ v[1] > 29 THEN Err("Invalid signature v value") ELSE Ok(v[1])

validateSignatureV(v) ==
    IF v[1] # 27 /\ v[1] # 28 THEN Err("Invalid signature v value") ELSE Ok(v[1])

\* A JS string is the sequence of its characters. The characters the model
\* draws address strings from, and the value of a hex digit.
HexChars == {"0", "1", "a", "A", "f", "F"}
HexValue(c) ==
    CASE c = "0" -> 0 [] c = "1" -> 1
      [] c \in {"a", "A"} -> 10 [] c \in {"f", "F"} -> 15

\* BigInt("0x..."): the digits after the prefix, base 16, most significant first.
RECURSIVE HexToInt(_)
HexToInt(digits) ==
    IF digits = <<>> THEN 0
    ELSE 16 * HexToInt(SubSeq(digits, 1, Len(digits) - 1)) + HexValue(digits[Len(digits)])

\* String.prototype.toLowerCase on a sequence of characters.
LowerChar(c) == CASE c = "A" -> "a" [] c = "F" -> "f" [] OTHER -> c
toLowerCaseIdentity(str) == str
toLowerCase(str) == [i \in 1..Len(str) |-> LowerChar(str[i])]

\* /^0x[a-fA-F0-9]{40}$/.test(address)
IsAddressStringAnyLength(address) ==
    /\ Len(address) >= 2
    /\ address[1] = "0" /\ address[2] = "x"
    /\ \A i \in 3..Len(address) : address[i] \in HexChars

IsAddressString(address) ==
    /\ Len(address) = 2 + ADDRESS_HEX_DIGITS
    /\ address[1] = "0" /\ address[2] = "x"
    /\ \A i \in 3..Len(address) : address[i] \in HexChars

\* addressToFieldElement(address): address is a string here (typeof checked
\* by the caller's inputs); returns the decimal string of its value.
addressToFieldElement(address) ==
    IF Len(address) < 2 \/ address[1] # "0" \/ address[2] # "x"
    THEN Err("Address must start with 0x prefix")
    ELSE IF ~IsAddressString(address)
    THEN Err("Address must be a valid 20-byte Ethereum address")
    ELSE LET r == validateFieldElement(<<HexToInt(SubSeq(address, 3, Len(address)))>>)
         IN  IF r.ok THEN Ok(<<r.value>>)
             ELSE Err("Failed to convert address to field element")

(* ------------------------------ Merkle engine ------------------------- *)

Pow2(n) == 2 ^ n

\* The while loop that pads the leaves with MERKLE_PADDING_VALUE to 2^TREE_DEPTH.
PadLeavesRepeatLast(leaves) ==
    [i \in 1..Pow2(TREE_DEPTH) |-> IF i <= Len(leaves) THEN leaves[i] ELSE leaves[Len(leaves)]]

PadLeaves(leaves) ==
    [i \in 1..Pow2(TREE_DEPTH) |-> IF i <= Len(leaves) THEN leaves[i] ELSE MERKLE_PADDING_VALUE]

\* One pass of the inner for loop: parent i of currentLevel (JS index i - 1)
\* is poseidonHash2(currentLevel[2(i-1)], currentLevel[2(i-1)+1]).
NextLevelRightFirst(currentLevel) ==
    [i \in 1..(Len(currentLevel) \div 2) |->
        poseidonHash2(currentLevel[2 * i], currentLevel[2 * i - 1])]

NextLevel(currentLevel) ==
    [i \in 1..(Len(currentLevel) \div 2) |->
        poseidonHash2(currentLevel[2 * i - 1], currentLevel[2 * i])]

\* The outer for loop: tree[0] is the padded leaves, tree[level + 1] the
\* parents of tree[level], for TREE_DEPTH levels.
RECURSIVE BuildLevels(_, _)
BuildLevels(tree, level) ==
    IF level >= TREE_DEPTH THEN tree
    ELSE BuildLevels(Append(tree, NextLevel(tree[level + 1])), level + 1)

\* new Set(normalizedAddresses).size
DistinctCount(seq) == Cardinality({seq[i] : i \in 1..Len(seq)})

\* buildMerkleTree(addresses): addresses is an array of strings.
buildMerkleTreeCapacityOffByOne(addresses) ==
    IF Len(addresses) = 0 THEN Err("Cannot build Merkle tree from empty array")
    ELSE IF Len(addresses) >= Pow2(TREE_DEPTH) THEN Err("Too many addresses")
    ELSE IF DistinctCount([i \in 1..Len(addresses) |-> toLowerCase(addresses[i])])
                # Len(addresses)
    THEN Err("Duplicate addresses detected in voter list")
    ELSE IF \E i \in 1..Len(addresses) : ~addressToFieldElement(addresses[i]).ok
    THEN Err("Failed to build Merkle tree")
    ELSE LET leaves == [i \in 1..Len(addresses) |-> addressToFieldElement(addresses[i]).value]
             paddedLeaves == PadLeaves(leaves)
             tree == BuildLevels(<<paddedLeaves>>, 0)
         IN  Ok([root |-> tree[TREE_DEPTH + 1][1], tree |-> tree, leaves |-> paddedLeaves])

buildMerkleTree(addresses) ==
    IF Len(addresses) = 0 THEN Err("Cannot build Merkle tree from empty array")
    ELSE IF Len(addresses) > Pow2(TREE_DEPTH) THEN Err("Too many addresses")
    ELSE IF DistinctCount([i \in 1..Len(addresses) |-> toLowerCase(addresses[i])])
                # Len(addresses)
    THEN Err("Duplicate addresses detected in voter list")
    ELSE IF \E i \in 1..Len(addresses) : ~addressToFieldElement(addresses[i]).ok
    THEN Err("Failed to build Merkle tree")
    ELSE LET leaves == [i \in 1..Len(addresses) |-> addressToFieldElement(addresses[i]).value]
             paddedLeaves == PadLeaves(leaves)
             tree == BuildLevels(<<paddedLeaves>>, 0)
         IN  Ok([root |-> tree[TREE_DEPTH + 1][1], tree |-> tree, leaves |-> paddedLeaves])

\* The loop of getMerkleProof from `level` up, with JS index `index`.
RECURSIVE ProofFrom(_, _, _)
ProofFrom(tree, index, level) ==
    IF level >= TREE_DEPTH THEN Ok([siblings |-> <<>>, pathIndices |-> <<>>])
    ELSE LET isRight == index % 2 = 1
             siblingIndex == IF isRight THEN index - 1 ELSE index + 1
         IN  IF siblingIndex < 0 \/ siblingIndex >= Len(tree[level + 1])
             THEN Err("Invalid sibling index")
             ELSE LET rest == ProofFrom(tree, index \div 2, level + 1)
                  IN  IF ~rest.ok THEN rest
                      ELSE Ok([siblings |->
                                   <<tree[level + 1][siblingIndex + 1]>> \o rest.value.siblings,
                               pathIndices |->
                                   <<IF isRight THEN 1 ELSE 0>> \o rest.value.pathIndices])

\* getMerkleProof(tree, leafIndex): leafIndex is an integer here.
getMerkleProofRejectsZero(tree, leafIndex) ==
    IF Len(tree) = 0 THEN Err("Invalid tree structure")
    ELSE IF leafIndex <= 0 THEN Err("Invalid leaf index")
    ELSE IF leafIndex >= Len(tree[1]) THEN Err("Leaf index out of bounds")
    ELSE ProofFrom(tree, leafIndex, 0)

getMerkleProofStaleIndex(tree, leafIndex) ==
    IF Len(tree) = 0 THEN Err("Invalid tree structure")
    ELSE IF leafIndex < 0 THEN Err("Invalid leaf index")
    ELSE IF leafIndex >= Len(tree[1]) THEN Err("Leaf index out of bounds")
    ELSE LET p == ProofFrom(tree, leafIndex, 0)
         IN  IF ~p.ok THEN p
             ELSE Ok([siblings |-> p.value.siblings,
                      pathIndices |-> [l \in 1..TREE_DEPTH |-> leafIndex % 2]])

getMerkleProof(tree, leafIndex) ==
    IF Len(tree) = 0 THEN Err("Invalid tree structure")
    ELSE IF leafIndex < 0 THEN Err("Invalid leaf index")
    ELSE IF leafIndex >= Len(tree[1]) THEN Err("Leaf index out of bounds")
    ELSE ProofFrom(tree, leafIndex, 0)

\* getMerkleProof(tree, leafIndex) for any JS number: Number.isInteger(leafIndex)
\* is checked with the sign, before the bound.
getMerkleProofOfNumber(tree, x) ==
    IF Len(tree) = 0 THEN Err("Invalid tree structure")
    ELSE IF x.kind # "integer" THEN Err("Invalid leaf index")
    ELSE getMerkleProof(tree, x.floor)

\* The fold of verifyMerkleProof from step i (JS index) with value current.
RECURSIVE FoldProof(_, _, _)
FoldProof(current, proof, i) ==
    IF i >= TREE_DEPTH THEN current
    ELSE LET sibling == proof.siblings[i + 1]
             isRight == proof.pathIndices[i + 1] = 1
         IN  FoldProof(IF isRight THEN poseidonHash2(sibling, current)
                                  ELSE poseidonHash2(current, sibling),
                       proof, i + 1)

\* verifyMerkleProof(leaf, proof, root): current === root.
verifyMerkleProofAlwaysLeft(leaf, proof, root) ==
    FoldProof(leaf, [proof EXCEPT !.pathIndices = [i \in 1..TREE_DEPTH |-> 0]], 0) = root

verifyMerkleProof(leaf, proof, root) ==
    FoldProof(leaf, proof, 0) = root

(* ------------------ Merkle proofs in and off the circuit --------------- *)

\* The decimal string of h + P for a Poseidon output h: another string for
\* the field element h.
PlusFieldOrder(h) == <<"+P", h>>

\* The field element a signal holds when it is assigned the value x.
Signal(x) == IF Len(x) = 2 THEN x[2] ELSE FieldE(x)

\* x + index * (y - x) in the field: the value of leftSelector[i] for
\* x = computedHash[i], y = pathElements[i], of rightSelector[i] for
\* x = pathElements[i], y = computedHash[i]. Between Poseidon outputs the
\* combination for an index other than 0 and 1 is kept as a term.
Selector(x, y, index) ==
    IF index % BN254_FIELD_ORDER = 0 THEN x
    ELSE IF index % BN254_FIELD_ORDER = 1 THEN y
    ELSE IF x = y THEN x
    ELSE IF Len(x) = 1 /\ Len(y) = 1
    THEN <<(x[1] + index * (y[1] - x[1])) % BN254_FIELD_ORDER>>
    ELSE <<"L", x, y, index % BN254_FIELD_ORDER>>

\* computedHash[i] of the MerkleProof template.
RECURSIVE computedHash(_, _, _, _)
computedHash(leaf, pathElements, pathIndices, i) ==
    IF i = 0 THEN Signal(leaf)
    ELSE LET before == computedHash(leaf, pathElements, pathIndices, i - 1)
             leftSelector == Selector(before, Signal(pathElements[i]), pathIndices[i])
             rightSelector == Selector(Signal(pathElements[i]), before, pathIndices[i])
         IN  <<"H", leftSelector, rightSelector>>

\* root === computedHash[levels]
MerkleProofRootConstraint(root, leaf, pathElements, pathIndices) ==
    Signal(root) = computedHash(leaf, pathElements, pathIndices, TREE_DEPTH)

(* ------------------------------ nullifier ----------------------------- *)

\* computeNullifier(sigR, sigS, topicIdHash, messageHash): an argument is a
\* number or numeric string <<n>>, or <<>> when undefined, null or ''.
\* The list it hands to poseidonHashMany once the arguments passed its checks:
nullifierInputsUncheckedMessage(sigR, sigS, topicIdHash, messageHash) ==
    IF sigR = <<>> THEN Err("Signature component r is required")
    ELSE IF sigS = <<>> THEN Err("Signature component s is required")
    ELSE IF topicIdHash = <<>> THEN Err("Topic ID hash is required")
    ELSE LET rField == validateEcdsaScalar(sigR)
             sField == validateEcdsaScalar(sigS)
             topicField == validateFieldElement(topicIdHash)
         IN  IF ~rField.ok \/ ~sField.ok \/ ~topicField.ok \/ messageHash = <<>>
             THEN Err("Failed to compute nullifier")
             ELSE Ok(<<rField.value, sField.value, topicField.value, messageHash[1]>>)

nullifierInputs(sigR, sigS, topicIdHash, messageHash) ==
    IF sigR = <<>> THEN Err("Signature component r is required")
    ELSE IF sigS = <<>> THEN Err("Signature component s is required")
    ELSE IF topicIdHash = <<>> THEN Err("Topic ID hash is required")
    ELSE IF messageHash = <<>> THEN Err("Message hash is required")
    ELSE LET rField == validateEcdsaScalar(sigR)
             sField == validateEcdsaScalar(sigS)
             topicField == validateFieldElement(topicIdHash)
             messageField == validateFieldElement(messageHash)
         IN  IF ~rField.ok \/ ~sField.ok \/ ~topicField.ok \/ ~messageField.ok
             THEN Err("Failed to compute nullifier")
             ELSE Ok(<<rField.value, sField.value, topicField.value, messageField.value>>)

\* and what it returns.
computeNullifier(sigR, sigS, topicIdHash, messageHash) ==
    LET inputs == nullifierInputs(sigR, sigS, topicIdHash, messageHash)
    IN  IF inputs.ok THEN Ok(poseidonHashMany(inputs.value)) ELSE inputs

(* ------------------------------ vote signing --------------------------- *)

\* Characters of topic ids and their codes; the code of a string.
CharCode(c) ==
    CASE c = "a" -> 1 [] c = "b" -> 2 [] c = "-" -> 3 [] c = "_" -> 4
      [] c = "!" -> 5 [] OTHER -> 6

RECURSIVE StrCode(_)
StrCode(str) ==
    IF str = <<>> THEN 0
    ELSE 7 * StrCode(SubSeq(str, 1, Len(str) - 1)) + CharCode(str[Len(str)])

\* ethers.id(text): keccak256 of the text, as a number below 2^256. The
\* stand-in is injective, also modulo P, and takes values on both sides of P
\* (most 256-bit values are not below P).
ethersId(text) ==
    IF StrCode(text) % 2 = 0 THEN BN254_FIELD_ORDER + StrCode(text) ELSE StrCode(text)

\* The characters of the model that TOPIC_ID_PATTERN allows.
AllowedTopicChars == {"a", "b", "-", "_"}

\* TOPIC_ID_PATTERN.test(topicId): /^[a-zA-Z0-9_-]+$/.
MatchesTopicIdPattern(str) ==
    /\ Len(str) >= 1
    /\ \A i \in 1..Len(str) : str[i] \in AllowedTopicChars

\* DOMAIN_CONFIG of utils/constants.js.
DOMAIN_CONFIG ==
    [name |-> "ZKVoting", version |-> "1", chainId |-> 1, verifyingContract |-> 0]

\* createDomain(topicId), for a topic id that passed its checks.
createDomain(topicId) ==
    [name |-> DOMAIN_CONFIG.name, version |-> DOMAIN_CONFIG.version,
     chainId |-> DOMAIN_CONFIG.chainId,
     verifyingContract |-> DOMAIN_CONFIG.verifyingContract,
     salt |-> ethersId(topicId)]

\* createVoteMessage(topicId).
createVoteMessage(topicId) == [topic |-> topicId]

\* ethers.TypedDataEncoder.hash(domain, voteTypes, message): a 256-bit digest
\* of the domain and of every field of the message. The stand-in is injective
\* on the (domain, message) pairs one topic gives, also modulo P, and falls
\* on either side of P whichever side the salt is on.
typedDataHash(domain, message) ==
    LET body == StrCode(message.topic)
                + (IF "vote" \in DOMAIN message THEN 49 * StrCode(message.vote) ELSE 0)
    IN  IF domain.salt % 4 = 1 THEN BN254_FIELD_ORDER + body ELSE body

\* signatureToFieldElements(sig): decimal strings of r, s and v.
signatureToFieldElements(sig) ==
    [r |-> <<sig.r>>, s |-> <<sig.s>>, v |-> <<sig.v>>]

(* ------------------------- state of the Merkle runs -------------------- *)

\* Address strings: the voters the lists are drawn from (two of them equal up
\* to case), and addresses never in a voter list (data/invalid-voters.json).
VoterPool ==
    { <<"0", "x", "0", "1">>, <<"0", "x", "0", "a">>,
      <<"0", "x", "0", "A">>, <<"0", "x", "1", "f">>, <<"0", "x", "f", "0">> }
OutsiderPool == { <<"0", "x", "0", "0">>, <<"0", "x", "f", "F">> }

\* All sequences over S of length at most n.
RECURSIVE SeqsUpTo(_, _)
SeqsUpTo(S, n) ==
    IF n = 0 THEN {<<>>}
    ELSE LET shorter == SeqsUpTo(S, n - 1)
         IN  shorter \cup {Append(q, x) : q \in {r \in shorter : Len(r) = n - 1}, x \in S}

\* All sequences over S of length exactly n.
SeqsOfLen(S, n) == {q \in SeqsUpTo(S, n) : Len(q) = n}

NoProof == [siblings |-> <<>>, pathIndices |-> <<>>]

\* A JS number: an integer k, or a value that Number.isInteger refuses (a
\* fraction between k and k + 1, NaN).
JsInteger(k) == [kind |-> "integer", floor |-> k]
IndexSamples ==
    {JsInteger(k) : k \in (-2)..(Pow2(TREE_DEPTH) + 1)}
        \cup {[kind |-> "fraction", floor |-> k] : k \in {-1, 0, 1}}
        \cup {[kind |-> "NaN", floor |-> 0]}
NoProve == [index |-> [kind |-> "none", floor |-> 0], result |-> Err("not called")]

MerkleInit ==
    /\ voterList = <<>>
    /\ treeData = Err("no tree built")
    /\ mop = "init"
    /\ vindex = -1
    /\ vleaf = <<>>
    /\ vproof = NoProof
    /\ vroot = <<>>
    /\ vresult = FALSE
    /\ vtamper = "none"
    /\ vprove = NoProve

\* Every node value of the built tree.
TreeNodeSet(tree) ==
    UNION {{tree[l][j] : j \in 1..Len(tree[l])} : l \in 1..Len(tree)}

\* The field elements of a set of address strings.
FieldElementsOf(addrs) == {addressToFieldElement(a).value : a \in addrs}
GivenAddresses == {voterList[i] : i \in 1..Len(voterList)}

\* Values a caller may present as a leaf or as a sibling: every node of the
\* tree, the sentinel, and the field element of every address, voter or not.
ValueUniverse ==
    TreeNodeSet(treeData.value.tree) \cup {MERKLE_PADDING_VALUE}
        \cup FieldElementsOf(VoterPool \cup OutsiderPool)

\* scripts/build-merkle-tree.js: build a tree over a voter list.
BuildTree ==
    /\ mop = "init"
    /\ \E addrs \in SeqsUpTo(VoterPool, MaxAddresses) :
          /\ voterList' = addrs
          /\ treeData' = buildMerkleTree(addrs)
          /\ mop' = "build"
          /\ vindex' = -1
          /\ vleaf' = <<>>
          /\ vproof' = NoProof
          /\ vroot' = <<>>
          /\ vresult' = FALSE
          /\ vtamper' = "none"
          /\ vprove' = NoProve

\* Prove leaf i of the built tree and verify the proof against its root.
ProveAndVerify ==
    /\ mop = "build"
    /\ treeData.ok
    /\ \E i \in 0..(Pow2(TREE_DEPTH) - 1) :
        LET p == getMerkleProof(treeData.value.tree, i) IN
        /\ p.ok
        /\ vindex' = i
        /\ vleaf' = treeData.value.leaves[i + 1]
        /\ vproof' = p.value
        /\ vroot' = treeData.value.root
        /\ vresult' = verifyMerkleProof(treeData.value.leaves[i + 1], p.value,
                                        treeData.value.root)
        /\ vtamper' = "none"
        /\ vprove' = NoProve
        /\ mop' = "roundtrip"
    /\ UNCHANGED <<voterList, treeData>>

\* Verify an arbitrary leaf with an arbitrary proof of TREE_DEPTH siblings and
\* TREE_DEPTH path indices against the root of the built tree.
VerifyArbitrary ==
    /\ mop = "build"
    /\ treeData.ok
    /\ \E leaf \in ValueUniverse,
          sibs \in SeqsOfLen(ValueUniverse, TREE_DEPTH),
          idxs \in SeqsOfLen({0, 1}, TREE_DEPTH) :
        LET p == [siblings |-> sibs, pathIndices |-> idxs] IN
        /\ vindex' = -1
        /\ vleaf' = leaf
        /\ vproof' = p
        /\ vroot' = treeData.value.root
        /\ vresult' = verifyMerkleProof(leaf, p, treeData.value.root)
        /\ vtamper' = "none"
        /\ vprove' = NoProve
        /\ mop' = "verify"
    /\ UNCHANGED <<voterList, treeData>>

\* Corrupt the valid proof of leaf i in exactly one place and verify it.
VerifyTampered ==
    /\ mop = "build"
    /\ treeData.ok
    /\ \E i \in 0..(Pow2(TREE_DEPTH) - 1), l \in 1..TREE_DEPTH :
        LET p == getMerkleProof(treeData.value.tree, i).value
            leaf == treeData.value.leaves[i + 1]
            root == treeData.value.root
        IN
        /\ vindex' = i
        /\ vleaf' = leaf
        /\ \/ \E v \in ValueUniverse \ {p.siblings[l]} :
                /\ vproof' = [p EXCEPT !.siblings[l] = v]
                /\ vroot' = root
                /\ vtamper' = "sibling"
           \/ /\ vproof' = [p EXCEPT !.pathIndices[l] = 1 - @]
              /\ vroot' = root
              /\ vtamper' = "bit"
           \/ \E r \in ValueUniverse \ {root} :
                /\ vproof' = p
                /\ vroot' = r
                /\ vtamper' = "root"
        /\ vresult' = verifyMerkleProof(leaf, vproof', vroot')
        /\ mop' = "tamper"
        /\ vprove' = NoProve
    /\ UNCHANGED <<voterList, treeData>>

\* The run is over: the next one starts from a fresh process.
MerkleReset ==
    /\ mop # "init"
    /\ voterList' = <<>>
    /\ treeData' = Err("no tree built")
    /\ mop' = "init"
    /\ vindex' = -1
    /\ vleaf' = <<>>
    /\ vproof' = NoProof
    /\ vroot' = <<>>
    /\ vresult' = FALSE
    /\ vtamper' = "none"
    /\ vprove' = NoProve

\* A caller asks getMerkleProof for the proof of a leaf index of the built
\* tree, with whatever number it has.
GetProof ==
    /\ mop = "build"
    /\ treeData.ok
    /\ \E x \in IndexSamples :
          vprove' = [index |-> x, result |-> getMerkleProofOfNumber(treeData.value.tree, x)]
    /\ mop' = "prove"
    /\ UNCHANGED <<voterList, treeData, vindex, vleaf, vproof, vroot, vresult, vtamper>>

MerkleNext ==
    \/ BuildTree
    \/ MerkleReset
    \/ GetProof
    \/ ProveAndVerify
    \/ VerifyArbitrary
    \/ VerifyTampered

(* --------------------------- Merkle properties ------------------------- *)

\* C7: a built tree has TREE_DEPTH + 1 levels, level k holds 2^(TREE_DEPTH - k)
\* nodes (2^TREE_DEPTH leaves at level 0, the single root at level TREE_DEPTH),
\* and every node above the leaves is H2(left child, right child).
C7_TreeShape ==
    treeData.ok =>
        LET t == treeData.value.tree IN
        /\ Len(t) = TREE_DEPTH + 1
        /\ \A k \in 0..TREE_DEPTH : Len(t[k + 1]) = Pow2(TREE_DEPTH - k)
        /\ treeData.value.leaves = t[1]
        /\ treeData.value.root = t[TREE_DEPTH + 1][1]
        /\ \A i \in 0..(TREE_DEPTH - 1) : \A j \in 0..(Pow2(TREE_DEPTH - i - 1) - 1) :
              t[i + 2][j + 1] = <<"H", t[i + 1][2 * j + 1], t[i + 1][2 * j + 2]>>

\* A tree with real and padding leaves was built.
C7_Witness ==
    /\ treeData.ok
    /\ Len(voterList) = 3
    /\ treeData.value.leaves[Pow2(TREE_DEPTH)] = MERKLE_PADDING_VALUE

\* C6: for every leaf index of a built tree getMerkleProof returns a proof,
\* and verifying leaves[i] with it against the tree's root returns true.
C6_RoundTrip ==
    /\ (mop = "build" /\ treeData.ok) =>
          \A i \in 0..(Pow2(TREE_DEPTH) - 1) : getMerkleProof(treeData.value.tree, i).ok
    /\ mop = "roundtrip" => vresult

\* The round trip ran for a right-child leaf and for a padding leaf.
C6_Witness ==
    /\ mop = "roundtrip"
    /\ vindex = Pow2(TREE_DEPTH) - 1
    /\ vindex >= Len(voterList)
    /\ vresult

PathNode(l) == treeData.value.tree[l][(vindex \div Pow2(l - 1)) + 1]

\* The level at which the verified path indices differ from the valid ones.
FlippedLevels ==
    {l \in 1..TREE_DEPTH :
        vproof.pathIndices[l] # getMerkleProof(treeData.value.tree, vindex).value.pathIndices[l]}

\* C8 as claimed: any single corruption of a valid proof (one sibling
\* replaced, one path-index bit flipped, another root) makes verification fail.
C8_AnyCorruptionFails ==
    mop = "tamper" => ~vresult

\* C8 amended: a singly corrupted valid proof still verifies exactly when the
\* corruption is a flipped path-index bit at a level whose sibling equals the
\* node on the path; that never happens on the path of a supplied address.
C8_CorruptionFailsUnlessTwins ==
    /\ mop = "tamper" =>
          (vresult <=> /\ vtamper = "bit"
                       /\ \A l \in FlippedLevels : vproof.siblings[l] = PathNode(l))
    /\ (mop = "tamper" /\ vindex < Len(voterList)) => ~vresult

\* A path-index bit of the proof of a supplied address was flipped at the top
\* level, and the verification failed.
C8_Witness ==
    /\ mop = "tamper"
    /\ vtamper = "bit"
    /\ vindex < Len(voterList)
    /\ vproof.pathIndices[TREE_DEPTH] = 1
    /\ ~vresult

\* Two address strings are equal after case normalisation.
SameWhenNormalised(a, b) ==
    /\ Len(a) = Len(b)
    /\ \A k \in 1..Len(a) : LowerChar(a[k]) = LowerChar(b[k])

\* Two of the addresses given to buildMerkleTree are equal after normalisation.
HasDuplicate ==
    \E i, j \in 1..Len(voterList) :
        i < j /\ SameWhenNormalised(voterList[i], voterList[j])

\* The field elements of the addresses given to buildMerkleTree, in order.
SuppliedLeaves ==
    [i \in 1..Len(voterList) |-> addressToFieldElement(voterList[i]).value]

\* C12: buildMerkleTree fails and returns no tree for more than 2^TREE_DEPTH
\* addresses; for exactly 2^TREE_DEPTH distinct addresses it succeeds, and its
\* leaves are the field elements of the addresses in the supplied order, with
\* no padding leaf.
C12_CapacityIsExact ==
    mop = "build" =>
        /\ Len(voterList) > Pow2(TREE_DEPTH) =>
              (~treeData.ok /\ treeData.value = <<>>)
        /\ (Len(voterList) = Pow2(TREE_DEPTH) /\ ~HasDuplicate) =>
              /\ treeData.ok
              /\ treeData.value.leaves = SuppliedLeaves
              /\ \A i \in 1..Len(treeData.value.leaves) :
                    treeData.value.leaves[i] # MERKLE_PADDING_VALUE

\* A tree was built from exactly 2^TREE_DEPTH distinct addresses.
C12_Witness ==
    /\ mop = "build"
    /\ treeData.ok
    /\ Len(voterList) = Pow2(TREE_DEPTH)
    /\ treeData.value.leaves = SuppliedLeaves

\* C13: buildMerkleTree fails and returns no tree when two of the addresses
\* are equal after case normalisation, and the real leaves of every tree it
\* returns are pairwise distinct.
C13_NoDuplicateAddresses ==
    mop = "build" =>
        /\ HasDuplicate => (~treeData.ok /\ treeData.value = <<>>)
        /\ treeData.ok =>
              \A i, j \in 1..Len(voterList) :
                  i < j => treeData.value.leaves[i] # treeData.value.leaves[j]

\* A list of two addresses that differ only in case was refused.
C13_Witness ==
    /\ mop = "build"
    /\ ~treeData.ok
    /\ Len(voterList) = 2
    /\ voterList[1] # voterList[2]
    /\ SameWhenNormalised(voterList[1], voterList[2])

\* Every string of 0x followed by ADDRESS_HEX_DIGITS hexadecimal digits.
AddressStrings ==
    {<<"0", "x">> \o digits : digits \in SeqsOfLen(HexChars, ADDRESS_HEX_DIGITS)}

\* C14: in a tree built from n < 2^TREE_DEPTH addresses, leaves 0..n-1 are the
\* field elements of the addresses in the supplied order, leaves
\* n..2^TREE_DEPTH-1 are all MERKLE_PADDING_VALUE, and MERKLE_PADDING_VALUE is
\* the field element of no valid address.
C14_PaddingIsSentinel ==
    (mop = "build" /\ treeData.ok /\ Len(voterList) < Pow2(TREE_DEPTH)) =>
        /\ Len(treeData.value.leaves) = Pow2(TREE_DEPTH)
        /\ \A i \in 1..Len(voterList) : treeData.value.leaves[i] = SuppliedLeaves[i]
        /\ \A i \in (Len(voterList) + 1)..Pow2(TREE_DEPTH) :
              treeData.value.leaves[i] = MERKLE_PADDING_VALUE
        /\ \A a \in AddressStrings :
              addressToFieldElement(a).value # MERKLE_PADDING_VALUE

\* A tree of one address was built: every other leaf is the sentinel.
C14_Witness ==
    /\ mop = "build"
    /\ treeData.ok
    /\ Len(voterList) = 1
    /\ \A i \in 2..Pow2(TREE_DEPTH) : treeData.value.leaves[i] = MERKLE_PADDING_VALUE

\* C15: getMerkleProof returns a proof exactly when leafIndex is an integer
\* with 0 <= leafIndex < size of the leaf level; otherwise it fails and
\* returns no proof.
C15_IndexBounds ==
    mop = "prove" =>
        /\ vprove.result.ok <=>
              /\ vprove.index.kind = "integer"
              /\ vprove.index.floor >= 0
              /\ vprove.index.floor < Len(treeData.value.tree[1])
        /\ ~vprove.result.ok => vprove.result.value = <<>>

\* The index just past the leaf level was refused.
C15_Witness ==
    /\ mop = "prove"
    /\ vprove.index = JsInteger(Pow2(TREE_DEPTH))
    /\ ~vprove.result.ok

\* C16: the proof of leaf index i has TREE_DEPTH siblings and TREE_DEPTH path
\* indices; at level l the path index is bit l of i and the sibling is the
\* node of level l at position floor(i / 2^l) with its lowest bit flipped.
C16_ProofShape ==
    (mop = "prove" /\ vprove.result.ok) =>
        LET i == vprove.index.floor
            proof == vprove.result.value
            tree == treeData.value.tree
        IN  /\ Len(proof.siblings) = TREE_DEPTH
            /\ Len(proof.pathIndices) = TREE_DEPTH
            /\ \A l \in 0..(TREE_DEPTH - 1) :
                  LET pos == i \div Pow2(l) IN
                  /\ proof.pathIndices[l + 1] = pos % 2
                  /\ proof.siblings[l + 1] =
                        tree[l + 1][(IF pos % 2 = 0 THEN pos + 1 ELSE pos - 1) + 1]

\* The proof of a left leaf under a right top-level node was returned.
C16_Witness ==
    /\ mop = "prove"
    /\ vprove.result.ok
    /\ vprove.index.floor = Pow2(TREE_DEPTH) - 2
    /\ vprove.result.value.pathIndices[1] = 0
    /\ vprove.result.value.pathIndices[TREE_DEPTH] = 1

(* ------------------- vote attempts and the nullifier registry ---------- *)

Attempts == 1..NumAttempts

\* data/valid-voters.json: the voters, by index, and the tree built from them.
Voters == << <<"0", "x", "0", "1">>, <<"0", "x", "0", "a">> >>
Wallets == 0..(Len(Voters) - 1)
VotersTree == buildMerkleTree(Voters).value

VoteTopics == { <<"a">>, <<"b">> }
VoteMessages == { "Vote for Option A", "Vote for Option B" }
VotePairs == Wallets \X VoteTopics

\* wallet.signTypedData(domain, voteTypes, message) followed by
\* ethers.Signature.from: ECDSA with the RFC 6979 nonce, a function of the
\* wallet's key and the typed-data digest, with 0 < r, s < N and v in {27, 28}.
\* The stand-in takes r on both sides of P (N > P), distinct modulo P.
signTypedData(wallet, digest) ==
    [r |-> 1 + ((97 * (wallet + 1) + 31 * digest) % (SECP256K1_N - 1)),
     s |-> 1 + ((11 * (wallet + 1) + 7 * digest) % (SECP256K1_N - 1)),
     v |-> 27 + (digest % 2)]

NoAttempt == [wallet |-> -1, topicId |-> <<>>, voteMessage |-> ""]
NoInput == <<>>
NoCall == [nullifier |-> <<>>, result |-> "none", first |-> FALSE, before |-> {}]

VoteInit ==
    /\ registry = {}
    /\ pc = [p \in Attempts |-> "idle"]
    /\ att = [p \in Attempts |-> NoAttempt]
    /\ input = [p \in Attempts |-> NoInput]
    /\ nul = [p \in Attempts |-> <<>>]
    /\ outcome = [p \in Attempts |-> "none"]
    /\ fresh = [p \in Attempts |-> FALSE]
    /\ submitted = {}
    /\ lastCall = NoCall
    /\ derived = [k \in VotePairs |-> {}]
    /\ acceptedCount = [k \in VotePairs |-> 0]
    /\ acceptedBy = {}

\* What a vote attempt asks its wallet to sign: signVoteMessage(wallet, topicId)
\* signs createVoteMessage(topicId) under createDomain(topicId); the vote
\* message of the attempt is not part of it. The request is the wallet and
\* the typed-data digest.
SignRequestWithVote(wallet, topicId, voteMessage) ==
    <<wallet, typedDataHash(createDomain(topicId),
                            [topic |-> topicId,
                             vote |-> IF voteMessage = "Vote for Option A"
                                      THEN <<"a">> ELSE <<"b">>])>>

SignRequest(wallet, topicId, voteMessage) ==
    <<wallet, typedDataHash(createDomain(topicId), createVoteMessage(topicId))>>

\* buildCircuitInput(wallet, voterIndex, topicId, treeData) once the signer
\* has answered sig.
buildCircuitInput(wallet, topicId, sig) ==
    LET sigFields == signatureToFieldElements(sig)
        merkleProof == getMerkleProof(VotersTree.tree, wallet).value
    IN  [merkleRoot |-> VotersTree.root,
         topicId |-> <<ethersId(topicId)>>,
         messageHash |-> <<typedDataHash(createDomain(topicId), createVoteMessage(topicId))>>,
         voterAddress |-> addressToFieldElement(Voters[wallet + 1]).value,
         pathElements |-> merkleProof.siblings,
         pathIndices |-> merkleProof.pathIndices,
         sigR |-> sigFields.r, sigS |-> sigFields.s, sigV |-> sigFields.v]

\* The nullifier output of the Vote circuit: Poseidon(4) over the signals
\* sigR, sigS, topicId, messageHash (signals are field elements).
VoteCircuitNullifier(in) ==
    poseidonHashMany(<<in.sigR[1], in.sigS[1], in.topicId[1], in.messageHash[1]>>)

\* The attempt signs and builds its circuit input.
StartAttempt(p) ==
    /\ pc[p] = "idle"
    /\ \E w \in Wallets, t \in VoteTopics, m \in VoteMessages :
        LET req == SignRequest(w, t, m)
            sig == signTypedData(req[1], req[2])
        IN
            /\ att' = [att EXCEPT ![p] = [wallet |-> w, topicId |-> t, voteMessage |-> m]]
            /\ input' = [input EXCEPT ![p] = buildCircuitInput(w, t, sig)]
            /\ pc' = [pc EXCEPT ![p] = "input"]
    /\ UNCHANGED <<registry, nul, outcome, fresh, submitted, lastCall, derived,
                   acceptedCount, acceptedBy>>

\* generateAndVerifyProof resolves with a valid proof.
ProveOk(p) ==
    /\ pc[p] = "input"
    /\ nul' = [nul EXCEPT ![p] = VoteCircuitNullifier(input[p])]
    /\ fresh' = [fresh EXCEPT ![p] = VoteCircuitNullifier(input[p]) \notin registry]
    /\ pc' = [pc EXCEPT ![p] = "proved"]
    /\ UNCHANGED <<registry, att, input, outcome, submitted, lastCall, derived,
                   acceptedCount, acceptedBy>>

\* generateAndVerifyProof rejects, or the proof does not verify: the attempt
\* throws before it reaches the registry.
ProveFail(p) ==
    /\ pc[p] = "input"
    /\ pc' = [pc EXCEPT ![p] = "failed"]
    /\ att' = [att EXCEPT ![p] = NoAttempt]
    /\ input' = [input EXCEPT ![p] = NoInput]
    /\ UNCHANGED <<registry, nul, outcome, fresh, submitted, lastCall, derived,
                   acceptedCount, acceptedBy>>

\* The registry step: nullifierRegistry.has(n), and nullifierRegistry.add(n)
\* when it is absent. No await separates the two statements, so they run in
\* one turn of the event loop. Returns the answer and the registry after.
RegistryAlwaysAdds(reg, n) ==
    [result |-> "Accepted", registry |-> reg \cup {n}]

RegistryForgetsOnReject(reg, n) ==
    IF n \in reg THEN [result |-> "DoubleVote", registry |-> reg \ {n}]
    ELSE [result |-> "Accepted", registry |-> reg \cup {n}]

RegistryNeverAdds(reg, n) ==
    IF n \in reg THEN [result |-> "DoubleVote", registry |-> reg]
    ELSE [result |-> "Accepted", registry |-> reg]

checkAndInsert(reg, n) ==
    IF n \in reg THEN [result |-> "DoubleVote", registry |-> reg]
    ELSE [result |-> "Accepted", registry |-> reg \cup {n}]

CheckAndInsert(p) ==
    /\ pc[p] = "proved"
    /\ LET r == checkAndInsert(registry, nul[p]) IN
        /\ registry' = r.registry
        /\ outcome' = [outcome EXCEPT ![p] = r.result]
        /\ lastCall' = [nullifier |-> nul[p], result |-> r.result,
                        first |-> nul[p] \notin submitted, before |-> registry]
        /\ acceptedCount' =
              IF r.result = "Accepted"
              THEN [acceptedCount EXCEPT ![<<att[p].wallet, att[p].topicId>>] = @ + 1]
              ELSE acceptedCount
        /\ acceptedBy' =
              IF r.result = "Accepted"
              THEN {e \in acceptedBy : e[1] # nul[p]} \cup {<<nul[p], p>>}
              ELSE acceptedBy
    /\ submitted' = submitted \cup {nul[p]}
    /\ derived' = [derived EXCEPT ![<<att[p].wallet, att[p].topicId>>] = @ \cup {nul[p]}]
    /\ pc' = [pc EXCEPT ![p] = "done"]
    /\ UNCHANGED <<att, input, nul, fresh>>

\* The attempt is over; its slot takes the next attempt.
FinishAttempt(p) ==
    /\ pc[p] \in {"done", "failed"}
    /\ pc' = [pc EXCEPT ![p] = "idle"]
    /\ att' = [att EXCEPT ![p] = NoAttempt]
    /\ input' = [input EXCEPT ![p] = NoInput]
    /\ nul' = [nul EXCEPT ![p] = <<>>]
    /\ outcome' = [outcome EXCEPT ![p] = "none"]
    /\ fresh' = [fresh EXCEPT ![p] = FALSE]
    /\ UNCHANGED <<registry, submitted, lastCall, derived, acceptedCount, acceptedBy>>

VoteNext ==
    \E p \in Attempts :
        \/ StartAttempt(p)
        \/ ProveOk(p)
        \/ ProveFail(p)
        \/ CheckAndInsert(p)
        \/ FinishAttempt(p)

(* --------------------------- registry properties ---------------------- *)

\* C1: from an empty registry, a nullifier is answered Accepted on its first
\* call and DoubleVote on every later call; a nullifier absent from the
\* registry is Accepted whatever else the registry holds.
C1_FirstAcceptedThenRejected ==
    lastCall.result # "none" =>
        /\ lastCall.result = (IF lastCall.first THEN "Accepted" ELSE "DoubleVote")
        /\ lastCall.nullifier \notin lastCall.before => lastCall.result = "Accepted"

\* A repeated nullifier was rejected by a registry holding another one too.
C1_Witness ==
    /\ lastCall.result = "DoubleVote"
    /\ Cardinality(registry) >= 2

\* C2: all attempts of one wallet on one topic derive one nullifier, whatever
\* their vote messages, and at most one of them is accepted.
C2_OneVotePerVoterAndTopic ==
    \A k \in VotePairs :
        /\ Cardinality(derived[k] \cup
                       {nul[p] : p \in {q \in Attempts : /\ pc[q] \in {"proved", "done"}
                                                        /\ att[q].wallet = k[1]
                                                        /\ att[q].topicId = k[2]}}) <= 1
        /\ acceptedCount[k] <= 1

\* Two attempts of one wallet on one topic with different vote messages: the
\* second was detected as a double vote.
C2_Witness ==
    \E p, q \in Attempts :
        /\ pc[p] = "done" /\ pc[q] = "done"
        /\ att[p].wallet = att[q].wallet /\ att[p].topicId = att[q].topicId
        /\ att[p].voteMessage # att[q].voteMessage
        /\ outcome[p] = "Accepted" /\ outcome[q] = "DoubleVote"

\* C3: two attempts that carry the same nullifier and have both been answered
\* are never both Accepted; when the nullifier was unregistered as both
\* proofs arrived and one of the two registered it, exactly one is Accepted and the
\* other is DoubleVote.
C3_RaceHasOneWinner ==
    \A p, q \in Attempts :
        (p # q /\ pc[p] = "done" /\ pc[q] = "done" /\ nul[p] = nul[q]) =>
            /\ ~(outcome[p] = "Accepted" /\ outcome[q] = "Accepted")
            /\ nul[p] \in registry
            /\ (fresh[p] /\ fresh[q] /\ \E r \in {p, q} : <<nul[p], r>> \in acceptedBy)
                  => {outcome[p], outcome[q]} = {"Accepted", "DoubleVote"}

\* Two attempts raced with one fresh nullifier: one won, one was rejected.
C3_Witness ==
    \E p, q \in Attempts :
        /\ p # q /\ pc[p] = "done" /\ pc[q] = "done" /\ nul[p] = nul[q]
        /\ fresh[p] /\ fresh[q]
        /\ outcome[p] = "DoubleVote" /\ outcome[q] = "Accepted"

\* C4: a call answered DoubleVote leaves the registry as it was, a call
\* answered Accepted adds exactly its nullifier, which was absent, and no
\* step removes a nullifier or changes the registry otherwise.
C4_RegistryOnlyGrowsByAccepted ==
    [][ /\ registry \subseteq registry'
        /\ \A p \in Attempts :
              (pc[p] = "proved" /\ pc'[p] = "done") =>
                  IF outcome'[p] = "DoubleVote"
                  THEN registry' = registry
                  ELSE /\ outcome'[p] = "Accepted"
                       /\ nul[p] \notin registry
                       /\ registry' = registry \cup {nul[p]}
        /\ (\A p \in Attempts : ~(pc[p] = "proved" /\ pc'[p] = "done"))
              => registry' = registry
      ]_vars

\* A rejected call happened and the registry is what it was before it.
C4_Witness ==
    /\ lastCall.result = "DoubleVote"
    /\ lastCall.nullifier \in lastCall.before
    /\ registry = lastCall.before

(* ------------- computeNullifier calls and the proof input record ------- *)

\* The arguments callers hand to computeNullifier, as numeric strings: scalars
\* and hashes at and around 0, P and N.
SigRSamples == { <<0>>, <<1>>, <<BN254_FIELD_ORDER + 1>>, <<SECP256K1_N>> }
SigSSamples == { <<1>>, <<2>> }
TopicHashSamples == { <<1>>, <<2>>, <<BN254_FIELD_ORDER>> }
MessageHashSamples == { <<1>>, <<BN254_FIELD_ORDER + 1>> }

\* The argument lists of the calls: every combination of the samples, and the
\* lists with one argument undefined, null or ''.
NullifierArgSamples ==
    (SigRSamples \X SigSSamples \X TopicHashSamples \X MessageHashSamples)
        \cup { [i \in 1..4 |-> IF i = k THEN <<>> ELSE <<1>>] : k \in 1..4 }

\* data/invalid-voters.json: accounts that are in no voter list.
InvalidVoters == << <<"0", "x", "0", "0">>, <<"0", "x", "f", "F">> >>

\* A JS BigInt n, as opposed to the decimal string <<n>>.
BigIntOf(n) == [bigint |-> n]

NoNullifierCall ==
    [args |-> <<>>, hashed |-> <<>>,
     result |-> [ok |-> FALSE, value |-> <<>>, error |-> "not called"]]
NoProofArgs == [voterIndex |-> -1, voteMessage |-> "", useInvalid |-> FALSE, topicId |-> <<>>]
NoSignature == [r |-> 0, s |-> 0, v |-> 0, messageHash |-> 0]

NullifierInit ==
    /\ ncall = NoNullifierCall
    /\ nprev = NoNullifierCall
    /\ gpc = "idle"
    /\ gargs = NoProofArgs
    /\ gsig = NoSignature
    /\ ginput = <<>>
    /\ gerror = ""
    /\ inputFile = <<>>
    /\ gtoJSON = FALSE
    /\ gsignCalls = 0
    /\ gproveCalls = 0
    /\ gprover = "idle"
    /\ gtimer = "unset"
    /\ gproof = <<>>
    /\ gresult = <<>>
    /\ proofFile = <<>>
    /\ proofFileBefore = <<>>

\* A caller awaits computeNullifier(sigR, sigS, topicIdHash, messageHash).
CallComputeNullifier ==
    /\ \E args \in NullifierArgSamples :
          LET sigR == args[1]
              sigS == args[2]
              topicIdHash == args[3]
              messageHash == args[4]
              inputs == nullifierInputs(sigR, sigS, topicIdHash, messageHash)
          IN
            ncall' = [args |-> <<sigR, sigS, topicIdHash, messageHash>>,
                      hashed |-> IF inputs.ok THEN inputs.value ELSE <<>>,
                      result |-> computeNullifier(sigR, sigS, topicIdHash, messageHash)]
    /\ nprev' = IF ncall.result.ok THEN ncall ELSE nprev

\* signVoteMessage(wallet, topicId), for a wallet and a topic id that pass its
\* checks: the signature over createVoteMessage(topicId) under
\* createDomain(topicId), and the digest that was signed.
signVoteMessage(wallet, topicId) ==
    LET digest == typedDataHash(createDomain(topicId), createVoteMessage(topicId))
        sig == signTypedData(wallet, digest)
    IN  [r |-> sig.r, s |-> sig.s, v |-> sig.v, messageHash |-> digest]

\* The arguments generateProof is called with: voter indices inside and just
\* past the voter list, vote messages and the empty message, topic ids that
\* validateTopicId accepts (their hash and the digest signed under them fall
\* on either side of P, in all four ways) and one it refuses.
GenerateProofArgs ==
    {[voterIndex |-> i, voteMessage |-> m, useInvalid |-> u, topicId |-> t] :
        i \in Wallets \cup {Len(Voters)}, m \in VoteMessages \cup {""},
        u \in BOOLEAN, t \in VoteTopics \cup {<<"-">>, <<"_">>, <<"!">>}}

\* validateVoteMessage(voteMessage), validateTopicId(topicId) and, once the
\* voters file is read, validateVoterIndex(voterIndex, voters.length - 1).
\* The vote messages drawn are printable and within MAX_VOTE_MESSAGE_LENGTH.
validateProofArgs(args) ==
    LET voters == IF args.useInvalid THEN InvalidVoters ELSE Voters
    IN  IF args.voteMessage = "" THEN Err("Vote message cannot be empty")
        ELSE IF args.topicId = <<>> THEN Err("Topic ID cannot be empty")
        ELSE IF Len(args.topicId) > MAX_TOPIC_ID_LENGTH
        THEN Err("Topic ID exceeds maximum length")
        ELSE IF ~MatchesTopicIdPattern(args.topicId)
        THEN Err("Topic ID contains invalid characters")
        ELSE IF args.voterIndex < 0 THEN Err("Voter index must be non-negative")
        ELSE IF args.voterIndex > Len(voters) - 1
        THEN Err("Voter index exceeds available voters")
        ELSE Ok(args)

\* generateProof(voterIndex, voteMessage, useInvalid, topicId) up to its first
\* await: the arguments are validated, the voter and the tree are read, and
\* the wallet is asked to sign. gsig is what the wallet resolves with if it
\* does. The run happens in a host where a BigInt has a toJSON method or, as
\* in plain Node, has none.
GenerateProofSign ==
    /\ gpc = "idle"
    /\ \E args \in GenerateProofArgs, toJSON \in BOOLEAN :
          LET checked == validateProofArgs(args) IN
          /\ gargs' = args
          /\ gtoJSON' = toJSON
          /\ IF checked.ok
             THEN /\ gsig' = signVoteMessage(
                                args.voterIndex + (IF args.useInvalid THEN Len(Voters) ELSE 0),
                                args.topicId)
                  /\ gpc' = "signing"
                  /\ gsignCalls' = gsignCalls + 1
                  /\ gerror' = ""
             ELSE /\ gsig' = NoSignature
                  /\ gpc' = "rejected"
                  /\ gsignCalls' = gsignCalls
                  /\ gerror' = checked.error
    /\ ginput' = <<>>
    /\ proofFileBefore' = proofFile
    /\ UNCHANGED <<inputFile, proofFile, gproveCalls, gprover, gtimer, gproof, gresult>>

\* The wallet rejects: signVoteMessage throws, generateProof logs and rethrows.
GenerateProofSignRetries ==
    /\ gpc = "signing"
    /\ gsignCalls' = gsignCalls + 1
    /\ UNCHANGED <<gpc, gerror, gargs, gtoJSON, gsig, ginput, inputFile, proofFile,
                   proofFileBefore, gproveCalls, gprover, gtimer, gproof, gresult>>

GenerateProofSignFails ==
    /\ gpc = "signing"
    /\ gpc' = "rejected"
    /\ gerror' = "Failed to sign vote message"
    /\ UNCHANGED <<gargs, gtoJSON, gsig, ginput, inputFile, proofFile, proofFileBefore,
                   gsignCalls, gproveCalls, gprover, gtimer, gproof, gresult>>

\* The Merkle proof generateProof takes: the sentinel pseudo-proof for a
\* voter of the invalid list, getMerkleProof(tree, voterIndex) otherwise.
merkleProofOf(args) ==
    IF args.useInvalid
    THEN [siblings |-> [i \in 1..TREE_DEPTH |-> MERKLE_PADDING_VALUE],
          pathIndices |-> [i \in 1..TREE_DEPTH |-> 0]]
    ELSE getMerkleProof(VotersTree.tree, args.voterIndex).value

\* The proof input record generateProof assembles from the signature and the
\* Merkle proof, or the error one of its checks throws.
proofInputOfUncheckedLength(args, sig, merkleProof) ==
    LET voters == IF args.useInvalid THEN InvalidVoters ELSE Voters
        sigFields == signatureToFieldElements(sig)
        voterAddressField == addressToFieldElement(voters[args.voterIndex + 1])
        topicIdHash == BigIntOf(ethersId(args.topicId))
        messageHashField == <<sig.messageHash>>
    IN  IF ~voterAddressField.ok THEN voterAddressField
        ELSE IF ~validateEcdsaScalar(sigFields.r).ok THEN validateEcdsaScalar(sigFields.r)
        ELSE IF ~validateEcdsaScalar(sigFields.s).ok THEN validateEcdsaScalar(sigFields.s)
        ELSE IF ~validateSignatureV(sigFields.v).ok THEN validateSignatureV(sigFields.v)
        ELSE Ok([merkleRoot |-> VotersTree.root,
                 topicId |-> topicIdHash,
                 messageHash |-> messageHashField,
                 voterAddress |-> voterAddressField.value,
                 pathElements |-> merkleProof.siblings,
                 pathIndices |-> merkleProof.pathIndices,
                 sigR |-> sigFields.r, sigS |-> sigFields.s, sigV |-> sigFields.v])

proofInputOf(args, sig, merkleProof) ==
    LET voters == IF args.useInvalid THEN InvalidVoters ELSE Voters
        sigFields == signatureToFieldElements(sig)
        voterAddressField == addressToFieldElement(voters[args.voterIndex + 1])
        topicIdHash == BigIntOf(ethersId(args.topicId))
        messageHashField == <<sig.messageHash>>
    IN  IF ~voterAddressField.ok THEN voterAddressField
        ELSE IF ~validateEcdsaScalar(sigFields.r).ok THEN validateEcdsaScalar(sigFields.r)
        ELSE IF ~validateEcdsaScalar(sigFields.s).ok THEN validateEcdsaScalar(sigFields.s)
        ELSE IF ~validateSignatureV(sigFields.v).ok THEN validateSignatureV(sigFields.v)
        ELSE IF Len(merkleProof.siblings) # TREE_DEPTH
                \/ Len(merkleProof.pathIndices) # TREE_DEPTH
        THEN Err("Invalid Merkle proof")
        ELSE Ok([merkleRoot |-> VotersTree.root,
                 topicId |-> topicIdHash,
                 messageHash |-> messageHashField,
                 voterAddress |-> voterAddressField.value,
                 pathElements |-> merkleProof.siblings,
                 pathIndices |-> merkleProof.pathIndices,
                 sigR |-> sigFields.r, sigS |-> sigFields.s, sigV |-> sigFields.v])

proofInputRecord(args, sig) == proofInputOf(args, sig, merkleProofOf(args))

\* JSON.stringify(input, null, 2) on the record: its topicId is a BigInt. A
\* BigInt is serialized through its toJSON method (here: to its decimal
\* string) when the host defines one; otherwise JSON.stringify throws.
stringifyInput(record, toJSON) ==
    IF "bigint" \in DOMAIN record.topicId
    THEN IF toJSON THEN Ok([record EXCEPT !.topicId = <<record.topicId.bigint>>])
         ELSE Err("Do not know how to serialize a BigInt")
    ELSE Ok(record)

\* The signals the Vote circuit receives for a record: every input is read as
\* a field element, the BigInt topicId like the decimal strings.
RecordSignals(record) ==
    [record EXCEPT !.topicId = <<record.topicId.bigint>>]

\* The constraints of the Vote circuit: the root constraint of its MerkleProof
\* component, sigR and sigS not zero, sigV 27 or 28. (The two LessThan(254)
\* comparisons with SECP256K1_N hold for every field element: bit 254 of a
\* value below P is 0.)
VoteCircuitAccepts(record) ==
    LET signals == RecordSignals(record)
    IN  /\ MerkleProofRootConstraint(signals.merkleRoot, signals.voterAddress,
                                     signals.pathElements, signals.pathIndices)
        /\ signals.sigR[1] % BN254_FIELD_ORDER > 0
        /\ signals.sigS[1] % BN254_FIELD_ORDER > 0
        /\ signals.sigV[1] \in {27, 28}

\* PUBLIC_SIGNAL of utils/constants.js: the indices of the public signals.
PUBLIC_SIGNAL == [NULLIFIER |-> 0, MERKLE_ROOT |-> 1, TOPIC_ID |-> 2, MESSAGE_HASH |-> 3]

\* What snarkjs.groth16.fullProve(input, wasm, zkey) resolves with: the proof
\* and the public signals, the output nullifier first and then the public
\* inputs merkleRoot, topicId, messageHash as field elements.
fullProveNullifierLast(record) ==
    LET signals == RecordSignals(record)
    IN  [proof |-> "groth16",
         publicSignals |-> <<FieldE(signals.merkleRoot), FieldE(signals.topicId),
                             FieldE(signals.messageHash), VoteCircuitNullifier(signals)>>]

fullProve(record) ==
    LET signals == RecordSignals(record)
    IN  [proof |-> "groth16",
         publicSignals |-> <<VoteCircuitNullifier(signals), FieldE(signals.merkleRoot),
                             FieldE(signals.topicId), FieldE(signals.messageHash)>>]

\* generateProof from the answer of the wallet to its next await: the record
\* is assembled, serialized and written to the circuit-input file, the prover
\* is called and raced against the timer; an error is logged and rethrown.
\* The circuit is compiled (build/vote_js/vote.wasm and build/vote.zkey exist).
GenerateProofAssemble ==
    /\ gpc = "signing"
    /\ LET record == proofInputRecord(gargs, gsig)
           written == IF record.ok THEN stringifyInput(record.value, gtoJSON) ELSE record
       IN  /\ ginput' = IF record.ok THEN record.value ELSE <<>>
           /\ inputFile' = IF written.ok THEN written.value ELSE inputFile
           /\ gerror' = written.error
           /\ IF written.ok
              THEN /\ gpc' = "proving"
                   /\ gproveCalls' = gproveCalls + 1
                   /\ gprover' = "pending"
                   /\ gtimer' = "pending"
              ELSE /\ gpc' = "rejected"
                   /\ UNCHANGED <<gproveCalls, gprover, gtimer>>
    /\ UNCHANGED <<gargs, gtoJSON, gsig, proofFile, proofFileBefore, gsignCalls,
                   gproof, gresult>>

\* The prover resolves; it can only for a record that satisfies the circuit.
\* When the race is still open generateProof goes on to computeNullifier.
ProverResolvesAfterTimeout ==
    /\ gprover = "pending"
    /\ VoteCircuitAccepts(ginput)
    /\ gprover' = "resolved"
    /\ gproof' = fullProve(ginput)
    /\ gpc' = "hashing"
    /\ UNCHANGED <<gargs, gtoJSON, gsig, ginput, gerror, inputFile, proofFile,
                   proofFileBefore, gsignCalls, gproveCalls, gtimer, gresult>>

ProverResolves ==
    /\ gprover = "pending"
    /\ VoteCircuitAccepts(ginput)
    /\ gprover' = "resolved"
    /\ gproof' = fullProve(ginput)
    /\ gpc' = IF gpc = "proving" THEN "hashing" ELSE gpc
    /\ UNCHANGED <<gargs, gtoJSON, gsig, ginput, gerror, inputFile, proofFile,
                   proofFileBefore, gsignCalls, gproveCalls, gtimer, gresult>>

\* The prover rejects (an unsatisfied constraint, or any failure of its own).
\* When the race is still open generateProof logs and rethrows.
ProverRejects ==
    /\ gprover = "pending"
    /\ gprover' = "rejected"
    /\ gpc' = IF gpc = "proving" THEN "rejected" ELSE gpc
    /\ gerror' = IF gpc = "proving" THEN "Proof generation failed" ELSE gerror
    /\ UNCHANGED <<gargs, gtoJSON, gsig, ginput, inputFile, proofFile, proofFileBefore,
                   gsignCalls, gproveCalls, gtimer, gproof, gresult>>

\* The timer of PROOF_GENERATION_TIMEOUT_MS fires (it is never cleared). When
\* the race is still open generateProof logs and rethrows the timeout error.
TimerFires ==
    /\ gtimer = "pending"
    /\ gtimer' = "fired"
    /\ gpc' = IF gpc = "proving" THEN "rejected" ELSE gpc
    /\ gerror' = IF gpc = "proving" THEN "Proof generation timed out" ELSE gerror
    /\ UNCHANGED <<gargs, gtoJSON, gsig, ginput, inputFile, proofFile, proofFileBefore,
                   gsignCalls, gproveCalls, gprover, gproof, gresult>>

\* proofData of generateProof (the timestamp left out; -1 stands for null).
proofDataOf(args, proved, nullifier) ==
    [proof |-> proved.proof,
     publicSignals |-> proved.publicSignals,
     metadata |-> [voterIndex |-> IF args.useInvalid THEN -1 ELSE args.voterIndex,
                   voterAddress |-> (IF args.useInvalid THEN InvalidVoters
                                     ELSE Voters)[args.voterIndex + 1],
                   topicId |-> args.topicId,
                   voteMessage |-> args.voteMessage,
                   isInvalidVoter |-> args.useInvalid,
                   nullifier |-> nullifier]]

\* generateProof from the prover's answer to its return: the nullifier is
\* computed off-circuit, the proof data is written to the proof file and
\* returned; an error of computeNullifier is logged and rethrown.
GenerateProofFinishWritesFirst ==
    /\ gpc = "hashing"
    /\ LET nullifier == computeNullifier(ginput.sigR, ginput.sigS,
                                         <<ginput.topicId.bigint>>, ginput.messageHash)
           proofData == proofDataOf(gargs, gproof, nullifier.value)
       IN  /\ proofFile' = proofData
           /\ IF nullifier.ok
              THEN /\ gresult' = proofData
                   /\ gpc' = "returned"
                   /\ gerror' = gerror
              ELSE /\ gpc' = "rejected"
                   /\ gerror' = nullifier.error
                   /\ UNCHANGED gresult
    /\ UNCHANGED <<gargs, gtoJSON, gsig, ginput, inputFile, proofFileBefore,
                   gsignCalls, gproveCalls, gprover, gtimer, gproof>>

GenerateProofFinish ==
    /\ gpc = "hashing"
    /\ LET nullifier == computeNullifier(ginput.sigR, ginput.sigS,
                                         <<ginput.topicId.bigint>>, ginput.messageHash)
           proofData == proofDataOf(gargs, gproof, nullifier.value)
       IN  IF nullifier.ok
           THEN /\ proofFile' = proofData
                /\ gresult' = proofData
                /\ gpc' = "returned"
                /\ gerror' = gerror
           ELSE /\ gpc' = "rejected"
                /\ gerror' = nullifier.error
                /\ UNCHANGED <<proofFile, gresult>>
    /\ UNCHANGED <<gargs, gtoJSON, gsig, ginput, inputFile, proofFileBefore,
                   gsignCalls, gproveCalls, gprover, gtimer, gproof>>

\* The run is over and the process exits; the next run starts from its
\* arguments and finds the files the earlier runs left.
GenerateProofEnd ==
    /\ gpc \in {"returned", "rejected"}
    /\ gpc' = "idle"
    /\ gargs' = NoProofArgs
    /\ gtoJSON' = FALSE
    /\ gsig' = NoSignature
    /\ ginput' = <<>>
    /\ gerror' = ""
    /\ gsignCalls' = 0
    /\ gproveCalls' = 0
    /\ gprover' = "idle"
    /\ gtimer' = "unset"
    /\ gproof' = <<>>
    /\ gresult' = <<>>
    /\ proofFileBefore' = proofFile
    /\ UNCHANGED <<inputFile, proofFile>>

NullifierNext ==
    \/ CallComputeNullifier

GenerateNext ==
    \/ GenerateProofSign
    \/ GenerateProofSignFails
    \/ GenerateProofAssemble
    \/ ProverResolves
    \/ ProverRejects
    \/ TimerFires
    \/ GenerateProofFinish
    \/ GenerateProofEnd

(* --------------------------- nullifier properties ---------------------- *)

\* C9: two accepted computeNullifier calls with identical arguments return
\* identical nullifiers, and two accepted calls whose arguments differ only in
\* topicIdHash, or only in (sigR, sigS), return different nullifiers.
C9_NullifierDeterministicAndDistinct ==
    (ncall.result.ok /\ nprev.result.ok) =>
        /\ ncall.args = nprev.args => ncall.result.value = nprev.result.value
        /\ ( /\ ncall.args[3] # nprev.args[3]
             /\ \A i \in {1, 2, 4} : ncall.args[i] = nprev.args[i] )
               => ncall.result.value # nprev.result.value
        /\ ( /\ <<ncall.args[1], ncall.args[2]>> # <<nprev.args[1], nprev.args[2]>>
             /\ \A i \in {3, 4} : ncall.args[i] = nprev.args[i] )
               => ncall.result.value # nprev.result.value

\* A numeric string, or a hash output (a field element by construction),
\* lies in [0, P).
InField(x) == Len(x) = 1 => x[1] \in 0..(BN254_FIELD_ORDER - 1)

\* C10: every numeric value of an assembled proof input record and every
\* value computeNullifier hands to the hash lies in [0, P).
C10_ValuesInField ==
    /\ ginput # <<>> =>
          /\ InField(ginput.merkleRoot)
          /\ ginput.topicId.bigint \in 0..(BN254_FIELD_ORDER - 1)
          /\ InField(ginput.messageHash)
          /\ InField(ginput.voterAddress)
          /\ \A i \in 1..Len(ginput.pathElements) : InField(ginput.pathElements[i])
          /\ InField(ginput.sigR)
          /\ InField(ginput.sigS)
    /\ \A i \in 1..Len(ncall.hashed) : ncall.hashed[i] \in 0..(BN254_FIELD_ORDER - 1)

\* The arguments of the last computeNullifier call are all present, and pass
\* the scalar checks (sigR, sigS) and the field checks (topicIdHash,
\* messageHash).
NullifierArgsPass ==
    /\ \A i \in 1..4 : ncall.args[i] # <<>>
    /\ \A i \in {1, 2} : ncall.args[i][1] > 0 /\ ncall.args[i][1] < SECP256K1_N
    /\ \A i \in {3, 4} : ncall.args[i][1] >= 0 /\ ncall.args[i][1] < BN254_FIELD_ORDER

IntegerSamples == (-2)..(SECP256K1_N + 2)

\* The values handed to validateSignatureV: around 0 and 1 (the recovery bit
\* itself) and around 27 and 28.
SigVSamples == (-1)..30

\* The characters of the strings handed to addressToFieldElement: the hex
\* digits of the model, the x of the prefix and a letter that is no hex digit.
AddressChars == HexChars \cup {"x", "g"}

\* The longest string handed to addressToFieldElement: one character more
\* than an address has.
MaxAddressStringLen == 2 + ADDRESS_HEX_DIGITS + 1

\* A JS value handed to addressToFieldElement: a string, or a value whose
\* typeof is not 'string'.
JsString(chars) == [type |-> "string", chars |-> chars]
AddressArgSamples ==
    {JsString(str) : str \in SeqsUpTo(AddressChars, MaxAddressStringLen)}
        \cup {[type |-> t, chars |-> <<>>] : t \in {"undefined", "number", "object"}}

\* addressToFieldElement(address) for any JS value: the typeof check comes
\* first.
addressToFieldElementOfValue(x) ==
    IF x.type # "string" THEN Err("Address must be a string")
    ELSE addressToFieldElement(x.chars)

\* The signature objects handed to the assembling of the proof input record:
\* r and s inside and at the end of the scalar range, v around 27 and 28.
SignatureSamples ==
    {[r |-> r, s |-> s, v |-> v, messageHash |-> 1] :
        r \in {1, SECP256K1_N}, s \in {1, SECP256K1_N - 1}, v \in {0, 1, 26, 27, 28, 29}}

\* The generateProof arguments the records are assembled for.
ProofArgSamples ==
    {[voterIndex |-> i, voteMessage |-> "Vote for Option A", useInvalid |-> u,
      topicId |-> <<"a">>] : i \in Wallets, u \in BOOLEAN}

(* ------------------- topic ids on the way to the signer ---------------- *)

\* The characters topic ids are drawn from: the allowed ones, and a
\* punctuation mark and a blank that TOPIC_ID_PATTERN does not allow.
TopicChars == AllowedTopicChars \cup {"!", " "}

\* A JS value handed over as a topic id: a string of up to one character more
\* than MAX_TOPIC_ID_LENGTH, or a value whose typeof is not 'string'.
TopicArgSamples ==
    {JsString(str) : str \in SeqsUpTo(TopicChars, MAX_TOPIC_ID_LENGTH + 1)}
        \cup {[type |-> t, chars |-> <<>>] : t \in {"undefined", "number", "object"}}

\* The wallets handed to signVoteMessage: the accounts, and -1 for a value
\* without a signTypedData function.
WalletArgSamples == {-1} \cup Wallets

\* topicId.trim().length === 0
IsBlank(str) == \A i \in 1..Len(str) : str[i] = " "

\* createDomain(topicId) for any JS value: the three checks, then the domain.
createDomainOfValueNoPattern(x) ==
    IF x.type # "string" \/ x.chars = <<>>
    THEN Err("Topic ID must be a non-empty string")
    ELSE IF Len(x.chars) > MAX_TOPIC_ID_LENGTH
    THEN Err("Topic ID exceeds maximum length")
    ELSE Ok(createDomain(x.chars))

createDomainOfValue(x) ==
    IF x.type # "string" \/ x.chars = <<>>
    THEN Err("Topic ID must be a non-empty string")
    ELSE IF Len(x.chars) > MAX_TOPIC_ID_LENGTH
    THEN Err("Topic ID exceeds maximum length")
    ELSE IF ~MatchesTopicIdPattern(x.chars)
    THEN Err("Topic ID contains invalid characters")
    ELSE Ok(createDomain(x.chars))

\* createVoteMessage(topicId) for any JS value: the same three checks.
createVoteMessageOfValue(x) ==
    IF x.type # "string" \/ x.chars = <<>>
    THEN Err("Topic ID must be a non-empty string")
    ELSE IF Len(x.chars) > MAX_TOPIC_ID_LENGTH
    THEN Err("Topic ID exceeds maximum length")
    ELSE IF ~MatchesTopicIdPattern(x.chars)
    THEN Err("Topic ID contains invalid characters")
    ELSE Ok(createVoteMessage(x.chars))

\* signVoteMessage(wallet, topicId) for any JS values: what it resolves or
\* rejects with, and what it handed to wallet.signTypedData (<<>> when the
\* wallet was not asked).
signVoteMessageOfValue(wallet, x) ==
    IF x.type # "string" \/ x.chars = <<>> \/ IsBlank(x.chars)
    THEN [result |-> Err("Topic ID must be a non-empty string"), signed |-> <<>>]
    ELSE IF Len(x.chars) > MAX_TOPIC_ID_LENGTH
    THEN [result |-> Err("Topic ID exceeds maximum length"), signed |-> <<>>]
    ELSE IF wallet \notin Wallets
    THEN [result |-> Err("Invalid wallet instance provided"), signed |-> <<>>]
    ELSE LET domain == createDomainOfValue(x)
             message == createVoteMessageOfValue(x)
         IN  IF ~domain.ok THEN [result |-> domain, signed |-> <<>>]
             ELSE IF ~message.ok THEN [result |-> message, signed |-> <<>>]
             ELSE [result |-> Ok(signVoteMessage(wallet, x.chars)),
                   signed |-> [domain |-> domain.value, message |-> message.value]]

(* ------------------- verifyMerkleProof calls on their own --------------- *)

\* The leaves, siblings, path indices and roots verifyMerkleProof is called
\* with: values on both sides of P, indices 0, 1 and 2, and for roots the
\* folds of these proofs, each as Poseidon returns it and with P added.
VerifyLeafSamples == {<<1>>, <<2>>, <<BN254_FIELD_ORDER + 1>>}
VerifySiblingSamples == {<<2>>, MERKLE_PADDING_VALUE}
VerifyIndexSamples == {0, 1, 2}
VerifyRootSamples ==
    LET folds == {FoldProof(leaf, [siblings |-> sib, pathIndices |-> idx], 0) :
                    leaf \in VerifyLeafSamples,
                    sib \in [1..TREE_DEPTH -> VerifySiblingSamples],
                    idx \in [1..TREE_DEPTH -> {0, 1}]}
    IN  folds \cup {PlusFieldOrder(h) : h \in folds}

NoCodecCall == [ok |-> FALSE, value |-> <<>>, error |-> "not called"]

CodecInit ==
    /\ cfn = "none"
    /\ cin = <<>>
    /\ cout = NoCodecCall
    /\ csigned = <<>>

\* A caller calls validateFieldElement(value, name).
CallValidateFieldElement ==
    /\ cfn = "none"
    /\ \E v \in IntegerSamples :
          /\ cin' = <<v>>
          /\ cout' = validateFieldElement(<<v>>)
    /\ cfn' = "validateFieldElement"
    /\ csigned' = <<>>

\* A caller calls validateEcdsaScalar(value, name).
CallValidateEcdsaScalar ==
    /\ cfn = "none"
    /\ \E v \in IntegerSamples :
          /\ cin' = <<v>>
          /\ cout' = validateEcdsaScalar(<<v>>)
    /\ cfn' = "validateEcdsaScalar"
    /\ csigned' = <<>>

\* A caller calls validateSignatureV(v).
CallValidateSignatureV ==
    /\ cfn = "none"
    /\ \E v \in SigVSamples :
          /\ cin' = <<v>>
          /\ cout' = validateSignatureV(<<v>>)
    /\ cfn' = "validateSignatureV"
    /\ csigned' = <<>>

\* A caller calls addressToFieldElement(address).
CallAddressToFieldElement ==
    /\ cfn = "none"
    /\ \E x \in AddressArgSamples :
          /\ cin' = x
          /\ cout' = addressToFieldElementOfValue(x)
    /\ cfn' = "addressToFieldElement"
    /\ csigned' = <<>>

\* generateProof assembles its proof input record from a signature object.
AssembleProofInput ==
    /\ cfn = "none"
    /\ \E args \in ProofArgSamples, sig \in SignatureSamples :
          /\ cin' = sig
          /\ cout' = proofInputRecord(args, sig)
    /\ cfn' = "proofInputRecord"
    /\ csigned' = <<>>

\* A caller calls createDomain(topicId).
CallCreateDomain ==
    /\ cfn = "none"
    /\ \E x \in TopicArgSamples :
          /\ cin' = x
          /\ cout' = createDomainOfValue(x)
    /\ cfn' = "createDomain"
    /\ csigned' = <<>>

\* A caller awaits signVoteMessage(wallet, topicId).
CallSignVoteMessage ==
    /\ cfn = "none"
    /\ \E wallet \in WalletArgSamples, x \in TopicArgSamples :
          LET call == signVoteMessageOfValue(wallet, x) IN
          /\ cin' = [wallet |-> wallet, topicId |-> x]
          /\ cout' = call.result
          /\ csigned' = call.signed
    /\ cfn' = "signVoteMessage"

\* A caller awaits verifyMerkleProof(leaf, proof, root).
CallVerifyMerkleProof ==
    /\ cfn = "none"
    /\ \E leaf \in VerifyLeafSamples, sib \in [1..TREE_DEPTH -> VerifySiblingSamples],
          idx \in [1..TREE_DEPTH -> VerifyIndexSamples], root \in VerifyRootSamples :
          LET proof == [siblings |-> sib, pathIndices |-> idx] IN
          /\ cin' = [leaf |-> leaf, proof |-> proof, root |-> root]
          /\ cout' = Ok(verifyMerkleProof(leaf, proof, root))
    /\ cfn' = "verifyMerkleProof"
    /\ csigned' = <<>>

\* The call returned or threw; the caller goes on.
CodecReturn ==
    /\ cfn # "none"
    /\ cfn' = "none"
    /\ cin' = <<>>
    /\ cout' = NoCodecCall
    /\ csigned' = <<>>

CodecNext ==
    \/ CallValidateFieldElement
    \/ CallValidateEcdsaScalar
    \/ CallValidateSignatureV
    \/ CallAddressToFieldElement
    \/ AssembleProofInput
    \/ CallCreateDomain
    \/ CallSignVoteMessage
    \/ CallVerifyMerkleProof
    \/ CodecReturn

(* ----------------------------- codec properties ------------------------ *)

\* C17: validateEcdsaScalar returns v exactly when 0 < v < N, and fails for
\* v = 0, negative v and v >= N; in particular it accepts the values of
\* [P, N).
C17_ScalarRange ==
    cfn = "validateEcdsaScalar" =>
        /\ cout.ok <=> (0 < cin[1] /\ cin[1] < SECP256K1_N)
        /\ cout.ok => cout.value = cin[1]
        /\ ~cout.ok => cout.value = <<>>
        /\ (BN254_FIELD_ORDER <= cin[1] /\ cin[1] < SECP256K1_N) => cout.ok

\* A scalar between P and N was accepted.
C17_Witness ==
    /\ cfn = "validateEcdsaScalar"
    /\ cin[1] > BN254_FIELD_ORDER
    /\ cout.ok
    /\ cout.value = cin[1]

\* C18: validateFieldElement returns v unchanged exactly when 0 <= v < P,
\* zero included, and fails for negative v and for v >= P.
C18_FieldRange ==
    cfn = "validateFieldElement" =>
        /\ cout.ok <=> (0 <= cin[1] /\ cin[1] < BN254_FIELD_ORDER)
        /\ cout.ok => cout.value = cin[1]
        /\ ~cout.ok => cout.value = <<>>

\* The value P itself was refused.
C18_Witness ==
    /\ cfn = "validateFieldElement"
    /\ cin[1] = BN254_FIELD_ORDER
    /\ ~cout.ok

\* The integer an address string denotes: its hex digits weighted by powers
\* of 16, most significant first.
AddressValue(address) ==
    LET n == Len(address) - 2
        Weighted[k \in 0..n] ==
            IF k = 0 THEN 0
            ELSE Weighted[k - 1] + HexValue(address[2 + k]) * 16 ^ (n - k)
    IN  Weighted[n]

\* C19: addressToFieldElement fails for every input that is not a string of
\* 0x followed by exactly ADDRESS_HEX_DIGITS hex digits; for a valid address
\* it returns the integer value of the address, which is below P; and the
\* only address strings with the same field element are spellings of the same
\* address.
C19_AddressCodec ==
    cfn = "addressToFieldElement" =>
        /\ cout.ok <=> (cin.type = "string" /\ cin.chars \in AddressStrings)
        /\ ~cout.ok => cout.value = <<>>
        /\ cout.ok =>
              /\ cout.value = <<AddressValue(cin.chars)>>
              /\ cout.value[1] < BN254_FIELD_ORDER
              /\ \A b \in AddressStrings :
                    addressToFieldElement(b).value = cout.value
                        => SameWhenNormalised(b, cin.chars)

\* A string with one hex digit too many was refused.
C19_Witness ==
    /\ cfn = "addressToFieldElement"
    /\ cin.type = "string"
    /\ Len(cin.chars) = 2 + ADDRESS_HEX_DIGITS + 1
    /\ cin.chars[1] = "0" /\ cin.chars[2] = "x"
    /\ \A i \in 3..Len(cin.chars) : cin.chars[i] \in HexChars
    /\ ~cout.ok

\* C20: validateSignatureV returns exactly for 27 and 28 and fails for every
\* other value, and a proof input record is assembled only from a signature
\* whose v is 27 or 28, which becomes its sigV.
C20_RecoveryId ==
    /\ cfn = "validateSignatureV" =>
          /\ cout.ok <=> cin[1] \in {27, 28}
          /\ ~cout.ok => cout.value = <<>>
    /\ (cfn = "proofInputRecord" /\ cout.ok) =>
          /\ cin.v \in {27, 28}
          /\ cout.value.sigV = <<cin.v>>

\* A signature with good r and s and v = 29 yielded no proof input record.
C20_Witness ==
    /\ cfn = "proofInputRecord"
    /\ cin.r = 1 /\ cin.s = 1
    /\ cin.v = 29
    /\ ~cout.ok
    /\ cout.value = <<>>

\* A topic id createDomain is specified to take: a string of 1 to
\* MAX_TOPIC_ID_LENGTH letters, digits, hyphens and underscores.
TopicIdWellFormed(x) ==
    /\ x.type = "string"
    /\ Len(x.chars) \in 1..MAX_TOPIC_ID_LENGTH
    /\ \A i \in 1..Len(x.chars) : x.chars[i] \notin {"!", " "}

\* C21: createDomain fails and returns no domain when topicId is empty, not a
\* string, longer than MAX_TOPIC_ID_LENGTH or holds a character other than
\* letters, digits, hyphen and underscore; otherwise it returns the fixed
\* domain fields and a salt that is a function of topicId alone; and
\* signVoteMessage hands the signer only a domain built from such a topicId.
C21_DomainOnlyFromValidTopic ==
    /\ cfn = "createDomain" =>
          /\ cout.ok <=> TopicIdWellFormed(cin)
          /\ ~cout.ok => cout.value = <<>>
          /\ cout.ok =>
                cout.value = [name |-> DOMAIN_CONFIG.name,
                              version |-> DOMAIN_CONFIG.version,
                              chainId |-> DOMAIN_CONFIG.chainId,
                              verifyingContract |-> DOMAIN_CONFIG.verifyingContract,
                              salt |-> ethersId(cin.chars)]
    /\ (cfn = "signVoteMessage" /\ csigned # <<>>) =>
          /\ TopicIdWellFormed(cin.topicId)
          /\ csigned.domain = createDomain(cin.topicId.chars)

\* signVoteMessage was called with a good wallet and a short topic id holding
\* a forbidden character: it failed and the wallet was not asked to sign.
C21_Witness ==
    /\ cfn = "signVoteMessage"
    /\ cin.wallet \in Wallets
    /\ cin.topicId.type = "string"
    /\ Len(cin.topicId.chars) = MAX_TOPIC_ID_LENGTH
    /\ cin.topicId.chars[1] = "a"
    /\ cin.topicId.chars[MAX_TOPIC_ID_LENGTH] = "!"
    /\ ~cout.ok
    /\ csigned = <<>>

\* The path indices of the call are all 0 or 1.
BooleanPath == \A i \in 1..TREE_DEPTH : cin.proof.pathIndices[i] \in {0, 1}

\* The circuit's root constraint holds for the arguments of the call.
CircuitAcceptsCall ==
    MerkleProofRootConstraint(cin.root, cin.leaf, cin.proof.siblings, cin.proof.pathIndices)

Callers == 1..NumCallers

\* if (!poseidonPromise): getPoseidon calls buildPoseidon.
getPoseidonBuildsAlways(promise) == TRUE

getPoseidonBuilds(promise) == promise = 0

PoseidonInit ==
    /\ poseidonPromise = 0
    /\ builds = <<>>
    /\ gpstate = [c \in Callers |-> "idle"]
    /\ gpawait = [c \in Callers |-> 0]
    /\ gparrived = [c \in Callers |-> "none"]
    /\ gpreset = FALSE

\* A caller calls getPoseidon(): buildPoseidon is called when no promise is
\* kept, its promise is kept, and the caller awaits the promise kept.
GetPoseidon(c) ==
    /\ gpstate[c] = "idle"
    /\ LET build == getPoseidonBuilds(poseidonPromise)
           kept == IF build THEN Len(builds) + 1 ELSE poseidonPromise
       IN  /\ builds' = IF build THEN Append(builds, "pending") ELSE builds
           /\ poseidonPromise' = kept
           /\ gpawait' = [gpawait EXCEPT ![c] = kept]
           /\ gparrived' = [gparrived EXCEPT ![c] =
                               IF poseidonPromise = 0 THEN "first"
                               ELSE builds[poseidonPromise]]
    /\ gpstate' = [gpstate EXCEPT ![c] = "awaiting"]
    /\ UNCHANGED gpreset

\* A buildPoseidon call settles: with its instance, or with an error.
BuildSettles(k) ==
    /\ k \in 1..Len(builds)
    /\ builds[k] = "pending"
    /\ \E settled \in {"resolved", "rejected"} : builds' = [builds EXCEPT ![k] = settled]
    /\ UNCHANGED <<poseidonPromise, gpstate, gpawait, gparrived, gpreset>>

\* The promise a caller awaits has settled: getPoseidon returns the instance
\* of that buildPoseidon call to it, or throws its error.
GetPoseidonSettles(c) ==
    /\ gpstate[c] = "awaiting"
    /\ builds[gpawait[c]] # "pending"
    /\ gpstate' = [gpstate EXCEPT ![c] =
                      IF builds[gpawait[c]] = "resolved" THEN "returned" ELSE "threw"]
    /\ UNCHANGED <<poseidonPromise, builds, gpawait, gparrived, gpreset>>

\* resetPoseidonInstance()
ResetPoseidonInstance ==
    /\ poseidonPromise # 0
    /\ poseidonPromise' = 0
    /\ gpreset' = TRUE
    /\ UNCHANGED <<builds, gpstate, gpawait, gparrived>>

PoseidonNext ==
    \/ \E c \in Callers : GetPoseidon(c)
    \/ \E k \in 1..NumCallers : BuildSettles(k)
    \/ \E c \in Callers : GetPoseidonSettles(c)
    \/ ResetPoseidonInstance

(* -------------------------- getPoseidon properties --------------------- *)

\* C23: as long as resetPoseidonInstance is not called, buildPoseidon is
\* called at most once however many callers call getPoseidon and whenever
\* they arrive, every caller awaits the promise of that one call, and the
\* callers that were returned an instance were returned the same one.
C23_BuiltOnce ==
    ~gpreset =>
        /\ Len(builds) <= 1
        /\ \A c \in Callers : gpstate[c] # "idle" => gpawait[c] = 1
        /\ \A c, d \in Callers :
              (gpstate[c] = "returned" /\ gpstate[d] = "returned") => gpawait[c] = gpawait[d]

\* Without a reset, a caller that arrived first, one that arrived while the
\* construction was pending and one that arrived after it had resolved were
\* all returned the instance of the one buildPoseidon call.
C23_Witness ==
    /\ ~gpreset
    /\ Len(builds) = 1
    /\ \A c \in Callers : gpstate[c] = "returned"
    /\ \E c, d, e \in Callers :
          gparrived[c] = "first" /\ gparrived[d] = "pending" /\ gparrived[e] = "resolved"

(* ------------------------- generateProof properties -------------------- *)

\* Merkle proofs of a wrong shape: the siblings, the indices or both are one
\* entry short or one entry long.
MisshapenProofs ==
    {[siblings |-> [i \in 1..n |-> MERKLE_PADDING_VALUE], pathIndices |-> [i \in 1..k |-> 0]] :
        n \in (TREE_DEPTH - 1)..(TREE_DEPTH + 1), k \in (TREE_DEPTH - 1)..(TREE_DEPTH + 1)}
      \ {[siblings |-> [i \in 1..TREE_DEPTH |-> MERKLE_PADDING_VALUE],
          pathIndices |-> [i \in 1..TREE_DEPTH |-> 0]]}

\* C22: the prover is only ever handed a record, and every record has exactly
\* TREE_DEPTH path elements and TREE_DEPTH path indices; on the ineligible
\* path they are TREE_DEPTH sentinels and TREE_DEPTH zeros; and with a Merkle
\* proof of any other length generateProof fails and builds no record.
C22_RecordPathShape ==
    /\ gproveCalls > 0 => ginput # <<>>
    /\ ginput # <<>> =>
          /\ Len(ginput.pathElements) = TREE_DEPTH
          /\ Len(ginput.pathIndices) = TREE_DEPTH
          /\ gargs.useInvalid =>
                \A i \in 1..TREE_DEPTH :
                    /\ ginput.pathElements[i] = MERKLE_PADDING_VALUE
                    /\ ginput.pathIndices[i] = 0
    /\ gpc = "signing" =>
          \A mp \in MisshapenProofs : ~proofInputOf(gargs, gsig, mp).ok

\* A run for a voter of the invalid list handed the prover a record with the
\* sentinel pseudo-proof.
C22_Witness ==
    /\ gargs.useInvalid
    /\ gproveCalls = 1
    /\ gprover = "pending"
    /\ ginput # <<>>
    /\ ginput.pathElements = [i \in 1..TREE_DEPTH |-> MERKLE_PADDING_VALUE]

\* C24: every persisted proof carries four public signals in the order
\* nullifier, merkleRoot, topicIdHash, messageHash (of the run's tree, topic
\* and signed digest), and the nullifier stored in its metadata, computed by
\* computeNullifier off the circuit, is the first of them, the nullifier the
\* Vote circuit outputs for the record.
C24_PersistedNullifierIsCircuitOutput ==
    proofFile # <<>> =>
        LET signals == proofFile.publicSignals
            topic == proofFile.metadata.topicId
            digest == typedDataHash(createDomain(topic), createVoteMessage(topic))
        IN  /\ Len(signals) = 4
            /\ signals[PUBLIC_SIGNAL.NULLIFIER + 1] = proofFile.metadata.nullifier
            /\ signals[PUBLIC_SIGNAL.MERKLE_ROOT + 1] = FieldE(VotersTree.root)
            /\ signals[PUBLIC_SIGNAL.TOPIC_ID + 1] = <<ethersId(topic) % BN254_FIELD_ORDER>>
            /\ signals[PUBLIC_SIGNAL.MESSAGE_HASH + 1] = <<digest % BN254_FIELD_ORDER>>
            /\ gpc = "returned" =>
                  /\ proofFile = gresult
                  /\ signals[PUBLIC_SIGNAL.NULLIFIER + 1]
                        = VoteCircuitNullifier(RecordSignals(ginput))
                  /\ proofFile.metadata.nullifier
                        = computeNullifier(ginput.sigR, ginput.sigS,
                                           <<ginput.topicId.bigint>>, ginput.messageHash).value

\* A run returned and persisted its proof, replacing the proof of an earlier
\* run for another topic or voter.
C24_Witness ==
    /\ gpc = "returned"
    /\ proofFile = gresult
    /\ proofFileBefore # <<>>
    /\ proofFile.metadata.nullifier # proofFileBefore.metadata.nullifier
    /\ proofFile.metadata.nullifier = proofFile.publicSignals[1]

\* The fields of a record pass the validations generateProof and
\* computeNullifier apply to them: validateEcdsaScalar (sigR, sigS),
\* validateSignatureV (sigV), validateFieldElement (topic hash, message hash)
\* and the two length checks. topicHash is the topic hash as a decimal string.
RecordValidated(record, topicHash) ==
    /\ validateEcdsaScalar(record.sigR).ok
    /\ validateEcdsaScalar(record.sigS).ok
    /\ validateSignatureV(record.sigV).ok
    /\ validateFieldElement(topicHash).ok
    /\ validateFieldElement(record.messageHash).ok
    /\ Len(record.pathElements) = TREE_DEPTH
    /\ Len(record.pathIndices) = TREE_DEPTH

\* C25: a record that generateProof hands to JSON.stringify, a record in the
\* circuit-input file and a record handed to the prover have passed every
\* validation of their fields.
C25_ValidatedBeforeWrittenOrProved ==
    /\ ginput # <<>> => RecordValidated(ginput, <<ginput.topicId.bigint>>)
    /\ inputFile # <<>> => RecordValidated(inputFile, inputFile.topicId)
    /\ gproveCalls > 0 => RecordValidated(ginput, <<ginput.topicId.bigint>>)

\* The run was called with a voter index inside the valid-voter list, a valid
\* vote message and a topic id validateTopicId accepts.
WellFormedRun == gargs # NoProofArgs /\ ~gargs.useInvalid /\ validateProofArgs(gargs).ok

\* The errors of a signer or prover that failed and of the timer that fired.
CollaboratorErrors ==
    {"Failed to sign vote message", "Proof generation failed", "Proof generation timed out"}

\* C26: a run on well-formed input whose signer and prover succeed before the
\* timeout does not fail: it is rejected only with the error of a signer or
\* prover that failed or of the timer.
C26_WellFormedRunDoesNotFail ==
    (gpc = "rejected" /\ WellFormedRun) => gerror \in CollaboratorErrors

\* C27: within one run signVoteMessage is called at most once and the prover
\* at most once; a failure of either ends the run rejected with that failure,
\* after one call of the signer and no or one call of the prover.
C27_NoRetry ==
    /\ gsignCalls <= 1
    /\ gproveCalls <= 1
    /\ gproveCalls = 1 => gsignCalls = 1
    /\ gerror = "Failed to sign vote message" =>
          gpc = "rejected" /\ gsignCalls = 1 /\ gproveCalls = 0
    /\ gerror = "Proof generation failed" =>
          gpc = "rejected" /\ gsignCalls = 1 /\ gproveCalls = 1 /\ gprover = "rejected"
    /\ gprover = "rejected" => gpc = "rejected" /\ gresult = <<>>

\* The prover failed in a run: the run is rejected with the failure after one
\* call of each collaborator.
C27_Witness ==
    /\ gpc = "rejected"
    /\ gerror = "Proof generation failed"
    /\ gsignCalls = 1
    /\ gproveCalls = 1

\* C28: until a run returns the proof file is the one the run found; a run
\* that is rejected leaves it so; and a run that returned, the only one to
\* write it, passed the validation of its arguments, one signing, the
\* validation of its record, the proving and the nullifier computation.
C28_ProofFileOnlyOnSuccess ==
    /\ gpc # "returned" => proofFile = proofFileBefore
    /\ gpc = "returned" =>
          /\ proofFile = gresult
          /\ validateProofArgs(gargs).ok
          /\ gsignCalls = 1
          /\ proofInputRecord(gargs, gsig) = Ok(ginput)
          /\ gproveCalls = 1
          /\ gprover = "resolved"
          /\ gproof = fullProve(ginput)
          /\ computeNullifier(ginput.sigR, ginput.sigS,
                              <<ginput.topicId.bigint>>, ginput.messageHash).ok

\* A run was rejected by computeNullifier after the prover had resolved, and
\* the proof file of an earlier run is still in place.
C28_Witness ==
    /\ gpc = "rejected"
    /\ gprover = "resolved"
    /\ gerror \notin CollaboratorErrors
    /\ proofFileBefore # <<>>
    /\ proofFile = proofFileBefore

\* What a run has decided: where it stands, its error, the proof data it
\* returned and the proof file.
RunOutcome == <<gpc, gerror, gresult, proofFile>>

\* The run timed out: it is rejected with the timeout error, has returned
\* nothing and has left the proof file as it found it.
TimedOut ==
    /\ gpc = "rejected"
    /\ gtimer = "fired"
    /\ gresult = <<>>
    /\ proofFile = proofFileBefore

\* C29: a run that took the timeout error is rejected, returns no proof data
\* and writes no proof file, also when the prover completes afterwards; and
\* when the prover settled first, the timer firing changes nothing of what the
\* run decided; while the race is open the run has decided nothing.
C29_RaceHasOneWinner ==
    /\ [](gerror = "Proof generation timed out" => TimedOut)
    /\ [](gpc = "proving" => gprover = "pending" /\ gtimer = "pending")
    /\ [][(gtimer = "pending" /\ gtimer' = "fired" /\ gprover # "pending")
              => RunOutcome' = RunOutcome]_vars
    /\ [][(gerror = "Proof generation timed out" /\ gprover = "pending"
           /\ gprover' \in {"resolved", "rejected"})
              => RunOutcome' = RunOutcome]_vars

\* The timer fired first and the prover completed afterwards: the run stays
\* rejected with the timeout error, without proof data or proof file.
C29_Witness ==
    /\ gerror = "Proof generation timed out"
    /\ gprover = "resolved"
    /\ gproof # <<>>
    /\ TimedOut

(* ----------------------------- specifications -------------------------- *)

Init == MerkleInit /\ VoteInit /\ NullifierInit /\ CodecInit /\ PoseidonInit

SpecVote == Init /\ [][VoteNext /\ UNCHANGED <<merkleVars, nullVars, genVars, codecVars, poseidonVars>>]_vars

SpecMerkle == Init /\ [][MerkleNext /\ UNCHANGED <<voteVars, nullVars, genVars, codecVars, poseidonVars>>]_vars

SpecNullifier == Init /\ [][NullifierNext /\ UNCHANGED <<merkleVars, voteVars, genVars, codecVars, poseidonVars>>]_vars

SpecGenerate ==
    Init /\ [][GenerateNext /\ UNCHANGED <<merkleVars, voteVars, nullVars, codecVars, poseidonVars>>]_vars

SpecCodec == Init /\ [][CodecNext /\ UNCHANGED <<merkleVars, voteVars, nullVars, genVars, poseidonVars>>]_vars

SpecPoseidon ==
    Init /\ [][PoseidonNext /\ UNCHANGED <<merkleVars, voteVars, nullVars, genVars, codecVars>>]_vars

=============================================================================
